---- MODULE Spec2Model ----
(***************************************************************************)
(* A model of CliChat's PTY session manager (src/lib/session-manager.js)   *)
(* and of the parts of src/server.js that drive it.                        *)
(*                                                                         *)
(* Session objects live in `sess` (one record per object, in creation      *)
(* order); the registry indices (sessions, activeSessions, userSessions),  *)
(* the history cache and the files on disk are separate variables.         *)
(* Text is modelled as sequences of tokens (one token per character or per *)
(* lexeme the code's regular expressions distinguish).                     *)
(***************************************************************************)
EXTENDS Integers, Sequences, FiniteSets, TLC

VARIABLES
    now,              \* Date.now()
    config,           \* config.inactiveSessionTimeout as given to the constructor
    up,               \* TRUE while a SessionManager instance is running
    idleCheckTimer,   \* this._idleCheckTimer is set
    sess,             \* the session objects created by this instance
    sessions,         \* this.sessions: Map sessionId -> session (insertion order)
    activeSessions,   \* this.activeSessions: user -> list of session ids
    userSessions,     \* this.userSessions: user -> list of runtime history items
    historyCache,     \* this.historyCache: user -> cached history array
    historyFile,      \* <historyDir>/<user>.json
    runtimeStateFile, \* <historyDir>/.runtime-active.json
    transcriptFile,   \* <historyDir>/sessions/<user>/<sessionId>.json
    received,         \* what each viewer callback has been handed
    liveAtCrash,      \* the sessions that were registered when the service last stopped
    destroyCalls,     \* per session id, the destroySession calls since it was created (2: two or more)
    threw             \* the last call or event handler ended by throwing

vars == <<now, config, up, idleCheckTimer, sess, sessions, activeSessions,
          userSessions, historyCache, historyFile, runtimeStateFile,
          transcriptFile, received, liveAtCrash, destroyCalls, threw>>

----------------------------------------------------------------------------
(* Program constants *)

DefaultInactiveTimeout == 1800000
IdleCheckInterval == 60000
PendingHigh == 200
PendingKeep == 120
TypingBatch == 10
HistoryKeep == 80
OutputHigh == 200000
OutputKeep == 160000
ReplayHigh == 600000
ReplayKeep == 400000
MessagesHigh == 2000
MessagesKeep == 1500
TranscriptCeiling == 2000000
TitleLen == 40
DefaultCols == 120
DefaultRows == 40

(* Input domains *)

AllUsers == {"alice", "bob"}
Agents == {"codex", "gemini"}
Modes == {"chat", "terminal"}
Subscribers == {"v1", "v2"}

----------------------------------------------------------------------------
(* Sequence helpers *)

Last(s) == s[Len(s)]

Front(s) == SubSeq(s, 1, Len(s) - 1)

\* Array.prototype.slice(-n)
SliceLast(s, n) == IF Len(s) <= n THEN s ELSE SubSeq(s, Len(s) - n + 1, Len(s))

\* the array holding the elements f[1], ..., f[n] of a function of 1..n
ArrayOf(f) == f \o <<>>

\* Array.prototype.findIndex, over the results of the test on each element:
\* the first index whose test holds, 0 (for -1) when there is none
FindIndex(hits) ==
    IF \E i \in 1..Len(hits) : hits[i]
    THEN CHOOSE i \in 1..Len(hits) : hits[i] /\ \A j \in 1..(i - 1) : ~hits[j]
    ELSE 0

Range(s) == {s[i] : i \in 1..Len(s)}

----------------------------------------------------------------------------
(* History items.  An absent (undefined) field is 0, "" or <<>>, the values *)
(* the code's own `x || default` tests treat as absent.                     *)

SessionIdOf(username, agentId, t) == <<username, agentId, t>>

DefaultTitle(agentId, modelId) == <<agentId, "/", modelId>>

HistoryItem(sessionId, agentId, modelId, mode, createdAt, endedAt, filesCount, title, endedReason) ==
    [sessionId |-> sessionId, agentId |-> agentId, modelId |-> modelId,
     mode |-> mode, createdAt |-> createdAt, endedAt |-> endedAt,
     filesCount |-> filesCount, title |-> title,
     hasTranscript |-> (mode # "terminal"), endedReason |-> endedReason]

_normalizeHistoryItem(item, t) ==
    LET mode == IF item.mode = "terminal" THEN "terminal" ELSE "chat"
        agentId == IF item.agentId = "" THEN "agent" ELSE item.agentId
        modelId == IF item.modelId = "" THEN "default" ELSE item.modelId
    IN  [sessionId |-> item.sessionId,
         agentId |-> IF item.agentId = "" THEN "unknown" ELSE item.agentId,
         modelId |-> modelId,
         mode |-> mode,
         createdAt |-> IF item.createdAt = 0 THEN t ELSE item.createdAt,
         endedAt |-> item.endedAt,
         filesCount |-> item.filesCount,
         title |-> IF item.title = <<>> THEN DefaultTitle(agentId, modelId)
                   ELSE item.title,
         hasTranscript |-> (mode # "terminal"),
         endedReason |-> item.endedReason]

\* The value the dedup Map of _compactHistory holds for the id of n[i] once
\* the loop is over: each later item with the same id replaced the fields,
\* except createdAt (the first non-zero one stays) and endedAt (the last
\* non-zero one wins).
DedupMerged(n, i) ==
    LET Min(S) == CHOOSE x \in S : \A y \in S : x <= y
        Max(S) == CHOOSE x \in S : \A y \in S : x >= y
        group == {j \in 1..Len(n) : n[j].sessionId = n[i].sessionId}
        created == {j \in group : n[j].createdAt # 0}
        ended == {j \in group : n[j].endedAt # 0}
    IN  [n[Max(group)] EXCEPT
           !.createdAt = IF created = {} THEN 0 ELSE n[Min(created)].createdAt,
           !.endedAt = IF ended = {} THEN 0 ELSE n[Max(ended)].endedAt]

\* Array.from(dedup.values()) for the normalized items n: an id keeps the
\* place of its first occurrence, firsts being the indices of the first
\* occurrences
DedupValues(n, firsts) == ArrayOf([k \in 1..Len(firsts) |-> DedupMerged(n, firsts[k])])

DedupFirsts(n) ==
    LET IsFirst(i) == \A j \in 1..(i - 1) : n[j].sessionId # n[i].sessionId
    IN  SelectSeq(ArrayOf([i \in 1..Len(n) |-> i]), IsFirst)

DedupNormalized(n) == DedupValues(n, DedupFirsts(n))

\* the dedup loop of _compactHistory
DedupHistory(items, t) ==
    DedupNormalized(ArrayOf([i \in 1..Len(items) |-> _normalizeHistoryItem(items[i], t)]))

\* the place of each item of arr once sorted by createdAt ascending; the sort
\* is stable, so an item goes after the smaller ones and after the equal
\* ones that precede it
SortRanks(arr) ==
    ArrayOf([i \in 1..Len(arr) |->
                Cardinality({j \in 1..Len(arr) :
                    \/ arr[j].createdAt < arr[i].createdAt
                    \/ arr[j].createdAt = arr[i].createdAt /\ j < i}) + 1])

SortRanked(arr, rank) ==
    ArrayOf([r \in 1..Len(arr) |-> arr[CHOOSE i \in 1..Len(arr) : rank[i] = r]])

\* Array.prototype.sort by createdAt ascending
SortByCreatedAt(arr) == SortRanked(arr, SortRanks(arr))

_compactHistory(items, t) ==
    SliceLast(SortByCreatedAt(DedupHistory(items, t)), HistoryKeep)

\* _readHistoryForUser: the cached array, else the compacted file (a missing
\* file reads as the empty list).  The result is cached.
_readHistoryForUser(cache, file, username, t) ==
    IF cache[username].has THEN cache[username].items
    ELSE _compactHistory(file[username], t)

CacheAfterRead(cache, file, username, t) ==
    [cache EXCEPT ![username] =
        [has |-> TRUE, items |-> _readHistoryForUser(cache, file, username, t)]]

\* _writeHistoryForUser that sets the cache and does not write the file
_writeHistoryForUser_cacheOnly(store, username, history, t) ==
    [cache |-> [store.cache EXCEPT ![username] =
                   [has |-> TRUE, items |-> _compactHistory(history, t)]],
     file |-> store.file]

\* _writeHistoryForUser: store = [cache, file]
_writeHistoryForUser(store, username, history, t) ==
    LET compacted == _compactHistory(history, t)
    IN  [cache |-> [store.cache EXCEPT ![username] =
                       [has |-> TRUE, items |-> compacted]],
         file |-> [store.file EXCEPT ![username] = compacted]]

----------------------------------------------------------------------------
(* Configuration *)

Num(n) == [kind |-> "number", value |-> n]

Undefined == [kind |-> "undefined", value |-> 0]

NaN == [kind |-> "NaN", value |-> 0]

Infinity == [kind |-> "Infinity", value |-> 0]

\* a string that is not a number, e.g. "never"
NonNumeric == [kind |-> "string", value |-> 0]

\* JavaScript truthiness of a configuration value
Truthy(v) ==
    \/ v.kind = "number" /\ v.value # 0
    \/ v.kind \in {"Infinity", "string"}

\* Number(v)
ToNumber(v) ==
    CASE v.kind = "number" -> v
      [] v.kind = "Infinity" -> v
      [] OTHER -> NaN

\* constructor: this.inactiveSessionTimeout =
\*     Number(config.inactiveSessionTimeout || 30 * 60 * 1000)
inactiveSessionTimeout ==
    ToNumber(IF Truthy(config) THEN config ELSE Num(DefaultInactiveTimeout))

----------------------------------------------------------------------------
(* Session objects *)

NoId == <<"", "", 0>>

\* the object literal of createSession, with the state of its PTY process,
\* of its timers and of its typing closures, and a log of what was written
\* to the process and of the history records saved for it
NewSession(username, agentId, modelId, mode, t) ==
    [sessionId |-> SessionIdOf(username, agentId, t),
     agentId |-> agentId,
     modelId |-> modelId,
     username |-> username,
     createdAt |-> t,
     lastActivityAt |-> t,
     outputBuffer |-> <<>>,
     terminalReplayBuffer |-> <<>>,
     terminalInputLine |-> <<>>,
     messages |-> <<>>,
     lastAssistantIndex |-> 0,
     started |-> FALSE,
     mode |-> IF mode = "terminal" THEN "terminal" ELSE "chat",
     title |-> DefaultTitle(agentId, modelId),
     historySaved |-> FALSE,
     startCommandSent |-> FALSE,
     readyFallbackTimer |-> FALSE,
     subscribers |-> <<>>,
     files |-> 0,
     pendingInputs |-> <<>>,
     userMessageCount |-> 0,
     startTimer |-> TRUE,
     pty |-> "running",
     cols |-> DefaultCols,
     rows |-> DefaultRows,
     typing |-> <<>>,
     ptyWrites |-> <<>>,
     submitted |-> 0,
     submittedBeforeReady |-> 0,
     dropped |-> 0,
     emitted |-> <<>>,
     saves |-> 0,
     kills |-> 0,
     reaped |-> FALSE,
     exitNotified |-> {}]

_touchSession(s, t) == [s EXCEPT !.lastActivityAt = t]

\* session.pty.write(data); tag 0 is the start command, tag k the k-th
\* input submitted to the session; `ready` records session.started at the
\* time of the write
PtyWrite(s, tag, data) ==
    [s EXCEPT !.ptyWrites =
        Append(@, [tag |-> tag, data |-> data, ready |-> s.started,
                   pty |-> s.pty])]

\* the loop of _flushPendingInputs from the i-th queued chunk on: each chunk
\* touches the session and is written to the pty
FlushFrom(s, queued, i, t) ==
    IF i > Len(queued) THEN s
    ELSE [_touchSession(s, t) EXCEPT !.ptyWrites =
             @ \o [k \in 1..(Len(queued) - i + 1) |->
                      [tag |-> queued[i + k - 1].tag,
                       data |-> queued[i + k - 1].data,
                       ready |-> s.started, pty |-> s.pty]]]

\* _flushPendingInputs that loses the first queued chunk
_flushPendingInputs_skipsFirst(s, t) ==
    IF s.pendingInputs = <<>> THEN s
    ELSE FlushFrom([s EXCEPT !.pendingInputs = <<>>], s.pendingInputs, 2, t)

_flushPendingInputs(s, t) ==
    IF s.pendingInputs = <<>> THEN s
    ELSE FlushFrom([s EXCEPT !.pendingInputs = <<>>], s.pendingInputs, 1, t)

\* _markSessionReady that leaves the fallback timer armed
_markSessionReady_keepsTimer(s, t) ==
    IF s.started THEN s
    ELSE _flushPendingInputs(
             [s EXCEPT !.started = TRUE,
                       !.submittedBeforeReady = s.submitted], t)

_markSessionReady(s, t) ==
    IF s.started THEN s
    ELSE _flushPendingInputs(
             [s EXCEPT !.started = TRUE, !.readyFallbackTimer = FALSE,
                       !.submittedBeforeReady = s.submitted], t)

----------------------------------------------------------------------------
(* The sessions Map (insertion order kept) *)

MapIndex(map, id) == LET Is(e) == e.id = id IN FindIndex([i_ \in 1..Len(map) |-> Is(map[i_])])

MapHas(map, id) == MapIndex(map, id) # 0

\* the object the id is mapped to, 0 when there is none
MapGet(map, id) == IF MapHas(map, id) THEN map[MapIndex(map, id)].obj ELSE 0

MapSet(map, id, obj) ==
    IF MapHas(map, id)
    THEN [map EXCEPT ![MapIndex(map, id)] = [id |-> id, obj |-> obj]]
    ELSE Append(map, [id |-> id, obj |-> obj])

MapDelete(map, id) == LET Other(e) == e.id # id IN SelectSeq(map, Other)

MapKeys(map) == {map[i].id : i \in 1..Len(map)}

----------------------------------------------------------------------------
(* Text.  A text is a sequence of tokens: a printable character ("a", "b",  *)
(* ">", " "), a control character ("CR", "LF", "BS", "DEL", "ETX"), one     *)
(* whole ANSI escape sequence ("ESC"), one of the phrases the readiness     *)
(* test looks for ("READY", e.g. `context left`) or the head of a line the  *)
(* noise patterns match ("NOISE", e.g. `DeprecationWarning`), or a run of   *)
(* 2, 4, 8, ... printable characters ("x2", "x4", "x8", ...), so that a     *)
(* text of hundreds of thousands of characters is a few tokens long.        *)

Whitespace == {" ", "CR", "LF"}

PromptGlyphs == {">"}

ReadyPhrases == {"READY"}

NoisePhrases == {"NOISE"}

\* the runs of 2^1, 2^2, ..., 2^21 printable characters
RunTokens ==
    <<"x2", "x4", "x8", "x16", "x32", "x64", "x128", "x256", "x512", "x1024",
      "x2048", "x4096", "x8192", "x16384", "x32768", "x65536", "x131072",
      "x262144", "x524288", "x1048576", "x2097152">>

\* the number of characters a token stands for
Width(token) ==
    IF \E k \in 1..Len(RunTokens) : RunTokens[k] = token
    THEN 2 ^ (CHOOSE k \in 1..Len(RunTokens) : RunTokens[k] = token)
    ELSE 1

RECURSIVE WidthsFrom(_, _)
WidthsFrom(runs, i) ==
    IF i > Len(runs) THEN 0 ELSE Width(runs[i]) - 1 + WidthsFrom(runs, i + 1)

\* String.prototype.length
CharLen(text) ==
    LET IsRun(token) == Width(token) > 1
    IN  Len(text) + WidthsFrom(SelectSeq(text, IsRun), 1)

\* a text of n printable characters
RECURSIVE Run(_)
Run(n) ==
    IF n = 0 THEN <<>>
    ELSE IF n = 1 THEN <<"x">>
    ELSE LET k == CHOOSE j \in 1..Len(RunTokens) :
                      2 ^ j <= n /\ (j = Len(RunTokens) \/ 2 ^ (j + 1) > n)
         IN  <<RunTokens[k]>> \o Run(n - 2 ^ k)

\* String.prototype.slice(-n): the last n characters; a run the cut falls
\* into is replaced by the run of the characters that are left of it
SliceLastChars(text, n) ==
    IF CharLen(text) <= n THEN text
    ELSE LET After(k) == SubSeq(text, k + 1, Len(text))
             k == CHOOSE j \in 1..Len(text) :
                      CharLen(After(j)) < n /\ CharLen(After(j - 1)) >= n
             left == n - CharLen(After(k))
         IN  (IF Width(text[k]) = 1 THEN <<text[k]>> ELSE Run(left)) \o After(k)

\* text.replace(ANSI_ESCAPE_RE, '')
StripAnsi(text) == LET NotEsc(c) == c # "ESC" IN SelectSeq(text, NotEsc)

\* String.prototype.trim
Trim(text) ==
    LET IsSolid(i) == text[i] \notin Whitespace
        solid == SelectSeq([i \in 1..Len(text) |-> i], IsSolid)
    IN  IF solid = <<>> THEN <<>> ELSE SubSeq(text, solid[1], solid[Len(solid)])

\* /(^|\n)\s*[›>]\s*$/ : the last non-blank character is a prompt glyph, and
\* the blanks before it reach the start of the text or contain a newline
EndsWithBarePrompt(text) ==
    LET IsSolid(i) == text[i] \notin Whitespace
        solid == SelectSeq([i \in 1..Len(text) |-> i], IsSolid)
        p == solid[Len(solid)]
        q == IF Len(solid) < 2 THEN 0 ELSE solid[Len(solid) - 1]
    IN  /\ solid # <<>>
        /\ text[p] \in PromptGlyphs
        /\ \/ q = 0
           \/ \E j \in (q + 1)..(p - 1) : text[j] = "LF"

_isSessionReadySignal(data) ==
    LET text == StripAnsi(data)
    IN  /\ Trim(text) # <<>>
        /\ \/ \E i \in 1..Len(text) : text[i] \in ReadyPhrases
           \/ EndsWithBarePrompt(text)

\* the replace chain of _appendTerminalOutputReplay
\* (a CR that an LF follows is dropped, any other CR becomes an LF, the
\* control characters are dropped)
SanitizeTerminalOutput(chunk) ==
    LET text == StripAnsi(chunk)
        Kept(i) == /\ text[i] \notin {"BS", "DEL", "ETX"}
                   /\ ~(text[i] = "CR" /\ i < Len(text) /\ text[i + 1] = "LF")
        kept == SelectSeq([i \in 1..Len(text) |-> i], Kept)
    IN  ArrayOf([k \in 1..Len(kept) |->
                    IF text[kept[k]] = "CR" THEN "LF" ELSE text[kept[k]]])

\* _appendTerminalOutputReplay cutting the buffer to the high watermark
_appendTerminalOutputReplay_trimsToHigh(s, chunk) ==
    LET text == SanitizeTerminalOutput(chunk)
        buf == s.terminalReplayBuffer \o text
    IN  IF s.mode # "terminal" \/ chunk = <<>> \/ text = <<>> THEN s
        ELSE [s EXCEPT !.terminalReplayBuffer =
                 IF CharLen(buf) > ReplayHigh THEN SliceLastChars(buf, ReplayHigh)
                 ELSE buf]

_appendTerminalOutputReplay(s, chunk) ==
    LET text == SanitizeTerminalOutput(chunk)
        buf == s.terminalReplayBuffer \o text
    IN  IF s.mode # "terminal" \/ chunk = <<>> \/ text = <<>> THEN s
        ELSE [s EXCEPT !.terminalReplayBuffer =
                 IF CharLen(buf) > ReplayHigh THEN SliceLastChars(buf, ReplayKeep)
                 ELSE buf]

\* one step of the character loop of _appendTerminalInputReplay (input texts
\* hold single characters only, no "ESC", "READY" or "NOISE" token)
InputReplayChar(s, ch) ==
    CASE ch \in {"CR", "LF"} ->
           [s EXCEPT !.terminalReplayBuffer = @ \o s.terminalInputLine \o <<"LF">>,
                     !.terminalInputLine = <<>>]
      [] ch = "ETX" ->
           [s EXCEPT !.terminalReplayBuffer = @ \o <<"^", "C", "LF">>,
                     !.terminalInputLine = <<>>]
      [] ch \in {"DEL", "BS"} ->
           [s EXCEPT !.terminalInputLine = Front(@)]
      [] OTHER -> [s EXCEPT !.terminalInputLine = Append(@, ch)]

RECURSIVE InputReplayFrom(_, _, _)
InputReplayFrom(s, raw, i) ==
    IF i > Len(raw) THEN s
    ELSE InputReplayFrom(InputReplayChar(s, raw[i]), raw, i + 1)

_appendTerminalInputReplay(s, chunk) ==
    LET r == InputReplayFrom(s, chunk, 1)
    IN  IF s.mode # "terminal" \/ chunk = <<>> THEN s
        ELSE [r EXCEPT !.terminalReplayBuffer =
                 IF CharLen(@) > ReplayHigh THEN SliceLastChars(@, ReplayKeep)
                 ELSE @]

\* normalized.split('\n') after \r -> \n
SplitLines(text) ==
    LET IsBreak(i) == text[i] \in {"CR", "LF"}
        breaks == SelectSeq([i \in 1..Len(text) |-> i], IsBreak)
    IN  ArrayOf([k \in 1..(Len(breaks) + 1) |->
                    SubSeq(text,
                           IF k = 1 THEN 1 ELSE breaks[k - 1] + 1,
                           IF k > Len(breaks) THEN Len(text) ELSE breaks[k] - 1)])

\* kept.join('\n')
RECURSIVE JoinLines(_, _, _)
JoinLines(lines, i, acc) ==
    IF i > Len(lines) THEN acc
    ELSE JoinLines(lines, i + 1,
                   IF i = 1 THEN lines[i] ELSE acc \o <<"LF">> \o lines[i])

\* the loop of _filterAssistantNoiseChunk over the lines of the chunk
RECURSIVE KeepLines(_, _, _)
KeepLines(lines, i, kept) ==
    IF i > Len(lines) THEN kept
    ELSE LET plain == Trim(StripAnsi(lines[i]))
         IN  IF plain = <<>>
             THEN KeepLines(lines, i + 1,
                            IF kept # <<>> /\ Last(kept) # <<>>
                            THEN Append(kept, <<>>) ELSE kept)
             ELSE IF plain[1] \in NoisePhrases
                  THEN KeepLines(lines, i + 1, kept)
                  ELSE KeepLines(lines, i + 1, Append(kept, lines[i]))

_filterAssistantNoiseChunk(chunk) ==
    LET compacted == JoinLines(KeepLines(SplitLines(chunk), 1, <<>>),
                               1, <<>>)
    IN  IF Trim(compacted) = <<>> THEN <<>> ELSE compacted

IsUser(m) == m.role = "user"

\* the byte-budget loop at the end of _appendAssistantOutput: i runs from the
\* last message down; the first i at which the running total exceeds the
\* ceiling cuts the transcript to the messages after i
RECURSIVE TruncateFrom(_, _, _)
TruncateFrom(s, i, total) ==
    IF i < 1 THEN s
    ELSE IF total + CharLen(s.messages[i].content) > TranscriptCeiling
         THEN [s EXCEPT !.messages = SubSeq(@, i + 1, Len(@)),
                        !.lastAssistantIndex = Len(s.messages) - i]
         ELSE TruncateFrom(s, i - 1, total + CharLen(s.messages[i].content))

\* _appendAssistantOutput without the gate on the first user message
_appendAssistantOutput_ungated(s, chunk, t) ==
    LET filteredChunk == _filterAssistantNoiseChunk(chunk)
        s2 == _touchSession(s, t)
        k == s2.lastAssistantIndex
        s3 == IF k < 1 \/ k > Len(s2.messages) \/ s2.messages[k].role # "assistant"
              THEN [s2 EXCEPT
                      !.messages = Append(@, [role |-> "assistant",
                                              content |-> filteredChunk]),
                      !.lastAssistantIndex = Len(s2.messages) + 1]
              ELSE [s2 EXCEPT !.messages[k].content = @ \o filteredChunk]
    IN  IF s.mode # "chat" \/ chunk = <<>> THEN s
        ELSE IF filteredChunk = <<>> THEN s
        ELSE TruncateFrom(s3, Len(s3.messages), 0)

\* _appendAssistantOutput opening a new assistant message for every chunk
_appendAssistantOutput_neverCoalesces(s, chunk, t) ==
    LET gated == s.userMessageCount = 0
        hasUserMessage == \E i \in 1..Len(s.messages) : IsUser(s.messages[i])
        s1 == IF gated THEN [s EXCEPT !.userMessageCount = 1] ELSE s
        filteredChunk == _filterAssistantNoiseChunk(chunk)
        s2 == _touchSession(s1, t)
        s3 == [s2 EXCEPT
                 !.messages = Append(@, [role |-> "assistant",
                                         content |-> filteredChunk]),
                 !.lastAssistantIndex = Len(s2.messages) + 1]
    IN  IF s.mode # "chat" \/ chunk = <<>> THEN s
        ELSE IF gated /\ ~hasUserMessage THEN s
        ELSE IF filteredChunk = <<>> THEN s1
        ELSE TruncateFrom(s3, Len(s3.messages), 0)

_appendAssistantOutput(s, chunk, t) ==
    LET gated == s.userMessageCount = 0
        hasUserMessage == \E i \in 1..Len(s.messages) : IsUser(s.messages[i])
        s1 == IF gated THEN [s EXCEPT !.userMessageCount = 1] ELSE s
        filteredChunk == _filterAssistantNoiseChunk(chunk)
        s2 == _touchSession(s1, t)
        k == s2.lastAssistantIndex
        s3 == IF k < 1 \/ k > Len(s2.messages) \/ s2.messages[k].role # "assistant"
              THEN [s2 EXCEPT
                      !.messages = Append(@, [role |-> "assistant",
                                              content |-> filteredChunk]),
                      !.lastAssistantIndex = Len(s2.messages) + 1]
              ELSE [s2 EXCEPT !.messages[k].content = @ \o filteredChunk]
    IN  IF s.mode # "chat" \/ chunk = <<>> THEN s
        ELSE IF gated /\ ~hasUserMessage THEN s
        ELSE IF filteredChunk = <<>> THEN s1
        ELSE TruncateFrom(s3, Len(s3.messages), 0)

----------------------------------------------------------------------------
(* The registry: the manager's maps, its cache and the files it writes, as  *)
(* one record, so that a handler that calls another is a composition.       *)

Registry ==
    [sess |-> sess, sessions |-> sessions, activeSessions |-> activeSessions,
     userSessions |-> userSessions, historyCache |-> historyCache,
     historyFile |-> historyFile, runtimeStateFile |-> runtimeStateFile,
     transcriptFile |-> transcriptFile]

Commit(R) ==
    /\ sess' = R.sess
    /\ sessions' = R.sessions
    /\ activeSessions' = R.activeSessions
    /\ userSessions' = R.userSessions
    /\ historyCache' = R.historyCache
    /\ historyFile' = R.historyFile
    /\ runtimeStateFile' = R.runtimeStateFile
    /\ transcriptFile' = R.transcriptFile

NoSnapshot == [exists |-> FALSE, activeSessions |-> <<>>]

\* _persistRuntimeState that leaves the file in place when the Map is empty
_persistRuntimeState_keepsFile(R) ==
    LET active == [i \in 1..Len(R.sessions) |->
                     LET session == R.sess[R.sessions[i].obj]
                     IN  [sessionId |-> session.sessionId,
                          username |-> session.username,
                          agentId |-> session.agentId,
                          modelId |-> session.modelId,
                          mode |-> session.mode,
                          createdAt |-> session.createdAt,
                          title |-> session.title,
                          filesCount |-> session.files]]
    IN  IF active = <<>> THEN R
        ELSE [R EXCEPT !.runtimeStateFile =
                 [exists |-> TRUE, activeSessions |-> active]]

\* _persistRuntimeState: the file lists the sessions of the Map, in Map
\* order; it is removed when the Map is empty.  (updatedAt and
\* lastActivityAt, which nothing reads back, are left out.)
_persistRuntimeState(R) ==
    LET active == [i \in 1..Len(R.sessions) |->
                     LET session == R.sess[R.sessions[i].obj]
                     IN  [sessionId |-> session.sessionId,
                          username |-> session.username,
                          agentId |-> session.agentId,
                          modelId |-> session.modelId,
                          mode |-> session.mode,
                          createdAt |-> session.createdAt,
                          title |-> session.title,
                          filesCount |-> session.files]]
    IN  [R EXCEPT !.runtimeStateFile =
            IF active = <<>> THEN NoSnapshot
            ELSE [exists |-> TRUE, activeSessions |-> active]]

\* _markUserSessionEnded: list.find takes the first item with the id
_markUserSessionEnded(R, username, sessionId, t) ==
    LET list == R.userSessions[username]
        Is(i) == i.sessionId = sessionId
        k == FindIndex([i_ \in 1..Len(list) |-> Is(list[i_])])
    IN  IF k = 0 THEN R
        ELSE [R EXCEPT !.userSessions[username][k].endedAt = t]

\* _saveHistory without its guard on session._historySaved
_saveHistory_unguarded(R, o, t) ==
    LET session == R.sess[o]
        history == _readHistoryForUser(R.historyCache, R.historyFile,
                                       session.username, t)
        entry == _normalizeHistoryItem(
                     HistoryItem(session.sessionId, session.agentId,
                                 session.modelId, session.mode,
                                 session.createdAt, t, session.files,
                                 session.title, ""), t)
        Is(h) == h.sessionId = entry.sessionId
        idx == FindIndex([i_ \in 1..Len(history) |-> Is(history[i_])])
        next == IF idx > 0 THEN [history EXCEPT ![idx] = entry]
                ELSE Append(history, entry)
        store == _writeHistoryForUser(
                     [cache |-> R.historyCache, file |-> R.historyFile],
                     session.username, next, t)
    IN  [R EXCEPT !.sess[o].historySaved = TRUE,
                  !.sess[o].saves = @ + 1,
                  !.historyCache = store.cache,
                  !.historyFile = store.file]

\* _saveHistory that adds its entry to the history file without looking for
\* an entry of the same id
_saveHistory_addsSecond(R, o, t) ==
    LET session == R.sess[o]
        history == _readHistoryForUser(R.historyCache, R.historyFile,
                                       session.username, t)
        entry == _normalizeHistoryItem(
                     HistoryItem(session.sessionId, session.agentId,
                                 session.modelId, session.mode,
                                 session.createdAt, t, session.files,
                                 session.title, ""), t)
        next == Append(history, entry)
    IN  IF session.historySaved THEN R
        ELSE [R EXCEPT
                !.sess[o].historySaved = TRUE,
                !.sess[o].saves = @ + 1,
                !.historyCache[session.username] = [has |-> TRUE, items |-> next],
                !.historyFile[session.username] = next]

\* _saveHistory(session), session being the object o
_saveHistory(R, o, t) ==
    LET session == R.sess[o]
        history == _readHistoryForUser(R.historyCache, R.historyFile,
                                       session.username, t)
        entry == _normalizeHistoryItem(
                     HistoryItem(session.sessionId, session.agentId,
                                 session.modelId, session.mode,
                                 session.createdAt, t, session.files,
                                 session.title, ""), t)
        Is(h) == h.sessionId = entry.sessionId
        idx == FindIndex([i_ \in 1..Len(history) |-> Is(history[i_])])
        next == IF idx > 0 THEN [history EXCEPT ![idx] = entry]
                ELSE Append(history, entry)
        store == _writeHistoryForUser(
                     [cache |-> R.historyCache, file |-> R.historyFile],
                     session.username, next, t)
        key == <<session.username, session.sessionId>>
    IN  IF session.historySaved THEN R
        ELSE [R EXCEPT
                !.sess[o].historySaved = TRUE,
                !.sess[o].saves = @ + 1,
                !.historyCache = store.cache,
                !.historyFile = store.file,
                !.transcriptFile =
                    IF session.mode = "terminal" THEN @
                    ELSE [k \in (DOMAIN @) \cup {key} |->
                            IF k = key
                            THEN [mode |-> session.mode,
                                  messages |-> session.messages]
                            ELSE @[k]]]

RemoveId(list, sessionId) == LET Other(id) == id # sessionId IN SelectSeq(list, Other)

\* destroySession that does not save the history of the session
destroySession_noSave(R, sessionId, t) ==
    LET o == MapGet(R.sessions, sessionId)
        session == R.sess[o]
        R1 == [R EXCEPT !.sess[o].readyFallbackTimer = FALSE,
                        !.sess[o].pty = IF @ = "running" THEN "killed" ELSE @,
                        !.sess[o].kills = @ + 1]
        R3 == [R1 EXCEPT
                 !.sessions = MapDelete(@, sessionId),
                 !.activeSessions[session.username] = RemoveId(@, sessionId)]
    IN  IF o = 0 THEN R
        ELSE _persistRuntimeState(
                 _markUserSessionEnded(R3, session.username, sessionId, t))

\* destroySession that leaves the session in the session map
destroySession_keepsEntry(R, sessionId, t) ==
    LET o == MapGet(R.sessions, sessionId)
        session == R.sess[o]
        R1 == [R EXCEPT !.sess[o].readyFallbackTimer = FALSE,
                        !.sess[o].pty = IF @ = "running" THEN "killed" ELSE @,
                        !.sess[o].kills = @ + 1]
        R2 == _saveHistory(R1, o, t)
        R3 == [R2 EXCEPT
                 !.activeSessions[session.username] = RemoveId(@, sessionId)]
    IN  IF o = 0 THEN R
        ELSE _persistRuntimeState(
                 _markUserSessionEnded(R3, session.username, sessionId, t))

\* destroySession(sessionId)
destroySession(R, sessionId, t) ==
    LET o == MapGet(R.sessions, sessionId)
        session == R.sess[o]
        R1 == [R EXCEPT !.sess[o].readyFallbackTimer = FALSE,
                        !.sess[o].pty = IF @ = "running" THEN "killed" ELSE @,
                        !.sess[o].kills = @ + 1]
        R2 == _saveHistory(R1, o, t)
        R3 == [R2 EXCEPT
                 !.sessions = MapDelete(@, sessionId),
                 !.activeSessions[session.username] = RemoveId(@, sessionId)]
    IN  IF o = 0 THEN R
        ELSE _persistRuntimeState(
                 _markUserSessionEnded(R3, session.username, sessionId, t))

\* the viewer of the connection whose 'start' message created the sessions:
\* the onExit argument of createSession sends the 'exit' message to it
Starter == "v1"

\* the ptyProcess.onExit handler of the object o; exitNotified are the
\* viewers whose connection the onExit callback sends the 'exit' message to
OnExitHandler(R, o, t) ==
    LET session == R.sess[o]
        R1 == [R EXCEPT !.sess[o].readyFallbackTimer = FALSE,
                        !.sess[o].pty = "exited",
                        !.sess[o].exitNotified = {Starter}]
        R2 == _saveHistory(R1, o, t)
        R3 == [R2 EXCEPT
                 !.sessions = MapDelete(@, session.sessionId),
                 !.activeSessions[session.username] =
                     RemoveId(@, session.sessionId)]
    IN  _persistRuntimeState(
            _markUserSessionEnded(R3, session.username, session.sessionId, t))

----------------------------------------------------------------------------
(* Agents (config.agents).  The README's agent entries have a command, no   *)
(* arguments and no model list; HANDOFF.md has entries with a model list.  *)

\* the models array of an agent entry written as HANDOFF.md describes it
\* (`gemini -m gemini-2.5-pro`); the README's entries have none
ConfiguredModels(agentId) ==
    IF agentId = "gemini"
    THEN <<[id |-> "gemini-2.5-pro", flag |-> "-m gemini-2.5-pro"]>>
    ELSE <<>>

AgentConfig(agentId) ==
    [id |-> agentId, command |-> agentId, args |-> <<>>,
     models |-> ConfiguredModels(agentId)]

\* _buildStartCommand(agent, modelId)
_buildStartCommand(agent, modelId) ==
    LET Is(m) == m.id = modelId
        k == FindIndex([i_ \in 1..Len(agent.models) |-> Is(agent.models[i_])])
        base == <<agent.command>> \o agent.args
    IN  IF modelId # "" /\ modelId # "default" /\ k > 0 /\ agent.models[k].flag # ""
        THEN base \o <<agent.models[k].flag>>
        ELSE base

----------------------------------------------------------------------------
(* Session creation and the timers it starts *)

\* createSession without the check of the agent id
CreateSession_registersUnknown(username, agentId, modelId, mode) ==
    LET sessionId == SessionIdOf(username, agentId, now)
        o == Len(sess) + 1
        item == [HistoryItem(sessionId, agentId, modelId,
                             IF mode = "terminal" THEN "terminal" ELSE "chat",
                             now, 0, 0, DefaultTitle(agentId, modelId), "")
                 EXCEPT !.hasTranscript = (mode # "terminal")]
        R1 == [Registry EXCEPT
                 !.sess = Append(@, NewSession(username, agentId, modelId, mode, now)),
                 !.sessions = MapSet(@, sessionId, o),
                 !.activeSessions[username] = Append(@, sessionId),
                 !.userSessions[username] = Append(@, item)]
    IN  /\ up
        /\ Commit(_persistRuntimeState(R1))
        /\ threw' = (agentId \notin Agents)
        /\ destroyCalls' = [id \in DOMAIN destroyCalls \ {sessionId} |-> destroyCalls[id]]
        /\ UNCHANGED <<now, config, up, idleCheckTimer, received, liveAtCrash>>

\* createSession(username, agentId, modelId, mode, null, onExit) as called by
\* the 'start' message of server.js, which passes modelId || 'default'
CreateSession(username, agentId, modelId, mode) ==
    LET sessionId == SessionIdOf(username, agentId, now)
        o == Len(sess) + 1
        item == [HistoryItem(sessionId, agentId, modelId,
                             IF mode = "terminal" THEN "terminal" ELSE "chat",
                             now, 0, 0, DefaultTitle(agentId, modelId), "")
                 EXCEPT !.hasTranscript = (mode # "terminal")]
        R1 == [Registry EXCEPT
                 !.sess = Append(@, NewSession(username, agentId, modelId, mode, now)),
                 !.sessions = MapSet(@, sessionId, o),
                 !.activeSessions[username] = Append(@, sessionId),
                 !.userSessions[username] = Append(@, item)]
    IN  /\ up
        /\ IF agentId \notin Agents
           THEN /\ threw' = TRUE
                /\ UNCHANGED <<sess, sessions, activeSessions, userSessions,
                               historyCache, historyFile, runtimeStateFile,
                               transcriptFile>>
           ELSE /\ Commit(_persistRuntimeState(R1))
                /\ threw' = FALSE
        /\ destroyCalls' = [id \in DOMAIN destroyCalls \ {sessionId} |-> destroyCalls[id]]
        /\ UNCHANGED <<now, config, up, idleCheckTimer, received, liveAtCrash>>

\* the setTimeout(..., 500) callback of createSession, for the object o
StartTimer(o) ==
    LET session == sess[o]
        cmd == _buildStartCommand(AgentConfig(session.agentId), session.modelId)
        sent == PtyWrite([session EXCEPT !.startTimer = FALSE,
                                         !.startCommandSent = TRUE],
                         0, cmd \o <<"CR">>)
    IN  /\ up
        /\ o \in DOMAIN sess
        /\ session.startTimer
        /\ sess' = [sess EXCEPT ![o] =
                      IF ~MapHas(sessions, session.sessionId)
                      THEN [session EXCEPT !.startTimer = FALSE]
                      ELSE [sent EXCEPT !.readyFallbackTimer = TRUE]]
        /\ threw' = FALSE
        /\ UNCHANGED <<now, config, up, idleCheckTimer, sessions, activeSessions,
                       userSessions, historyCache, historyFile, runtimeStateFile,
                       transcriptFile, received, liveAtCrash, destroyCalls>>

\* the readiness fallback timer of the object o fires
FallbackTimer(o) ==
    LET session == sess[o]
    IN  /\ up
        /\ o \in DOMAIN sess
        /\ session.readyFallbackTimer
        /\ sess' = [sess EXCEPT ![o] =
                      IF ~MapHas(sessions, session.sessionId)
                      THEN [session EXCEPT !.readyFallbackTimer = FALSE]
                      ELSE _markSessionReady(
                               [session EXCEPT !.readyFallbackTimer = FALSE], now)]
        /\ threw' = FALSE
        /\ UNCHANGED <<now, config, up, idleCheckTimer, sessions, activeSessions,
                       userSessions, historyCache, historyFile, runtimeStateFile,
                       transcriptFile, received, liveAtCrash, destroyCalls>>

----------------------------------------------------------------------------
(* Output *)

\* a viewer callback that throws on every invocation
ThrowingSubscribers == {"v2"}

\* the broadcast loop without its try/catch: the first callback that throws
\* ends the loop and the handler
RECURSIVE FanOut_uncaught(_, _, _, _, _)
FanOut_uncaught(subscribers, i, rcv, o, data) ==
    IF i > Len(subscribers) THEN [received |-> rcv, threw |-> FALSE]
    ELSE LET got == [rcv EXCEPT ![subscribers[i].fn] =
                        Append(@, [obj |-> o, data |-> data])]
         IN  IF subscribers[i].fn \in ThrowingSubscribers
             THEN [received |-> got, threw |-> TRUE]
             ELSE FanOut_uncaught(subscribers, i + 1, got, o, data)

\* the broadcast loop handing the chunk to every callback but the last one
RECURSIVE FanOut_skipsLast(_, _, _, _, _)
FanOut_skipsLast(subscribers, i, rcv, o, data) ==
    IF i >= Len(subscribers) THEN [received |-> rcv, threw |-> FALSE]
    ELSE FanOut_skipsLast(subscribers, i + 1,
                          [rcv EXCEPT ![subscribers[i].fn] =
                              Append(@, [obj |-> o, data |-> data])],
                          o, data)

\* the broadcast loop of the onData handler: every callback of the Set is
\* invoked in insertion order, inside its own try/catch
RECURSIVE FanOut(_, _, _, _, _)
FanOut(subscribers, i, rcv, o, data) ==
    IF i > Len(subscribers) THEN [received |-> rcv, threw |-> FALSE]
    ELSE FanOut(subscribers, i + 1,
                [rcv EXCEPT ![subscribers[i].fn] =
                    Append(@, [obj |-> o, data |-> data])],
                o, data)

\* the onData handler taking a ready signature for one before the start
\* command was sent
OnData_beforeStartCommand(o, data) ==
    LET session == sess[o]
        s1 == _touchSession(session, now)
        s2 == IF ~s1.started /\ _isSessionReadySignal(data)
              THEN _markSessionReady(s1, now) ELSE s1
        buf == s2.outputBuffer \o data
        s3 == [s2 EXCEPT !.outputBuffer =
                  IF CharLen(buf) > OutputHigh THEN SliceLastChars(buf, OutputKeep)
                  ELSE buf]
        s4 == _appendAssistantOutput(_appendTerminalOutputReplay(s3, data), data, now)
        out == FanOut(s4.subscribers, 1, received, o, data)
    IN  /\ up
        /\ o \in DOMAIN sess
        /\ session.pty \in {"running", "killed"}
        /\ sess' = [sess EXCEPT ![o] = [s4 EXCEPT !.emitted = Append(@, data)]]
        /\ received' = out.received
        /\ threw' = out.threw
        /\ UNCHANGED <<now, config, up, idleCheckTimer, sessions, activeSessions,
                       userSessions, historyCache, historyFile, runtimeStateFile,
                       transcriptFile, liveAtCrash, destroyCalls>>

\* the ptyProcess.onData handler of the object o (the onData argument of
\* createSession is null in server.js)
OnData(o, data) ==
    LET session == sess[o]
        s1 == _touchSession(session, now)
        s2 == IF ~s1.started /\ s1.startCommandSent /\ _isSessionReadySignal(data)
              THEN _markSessionReady(s1, now) ELSE s1
        buf == s2.outputBuffer \o data
        s3 == [s2 EXCEPT !.outputBuffer =
                  IF CharLen(buf) > OutputHigh THEN SliceLastChars(buf, OutputKeep)
                  ELSE buf]
        s4 == _appendAssistantOutput(_appendTerminalOutputReplay(s3, data), data, now)
        out == FanOut(s4.subscribers, 1, received, o, data)
    IN  /\ up
        /\ o \in DOMAIN sess
        /\ session.pty \in {"running", "killed"}
        /\ sess' = [sess EXCEPT ![o] = [s4 EXCEPT !.emitted = Append(@, data)]]
        /\ received' = out.received
        /\ threw' = out.threw
        /\ UNCHANGED <<now, config, up, idleCheckTimer, sessions, activeSessions,
                       userSessions, historyCache, historyFile, runtimeStateFile,
                       transcriptFile, liveAtCrash, destroyCalls>>

\* addSubscriber(sessionId, fn): Set.add keeps the first insertion
AddSubscriber(sessionId, fn) ==
    LET o == MapGet(sessions, sessionId)
        Is(e) == e.fn = fn
    IN  /\ up
        /\ IF o = 0 \/ FindIndex([i_ \in 1..Len(sess[o].subscribers) |-> Is(sess[o].subscribers[i_])]) # 0
           THEN UNCHANGED sess
           ELSE sess' = [sess EXCEPT ![o].subscribers =
                           Append(@, [fn |-> fn, from |-> Len(sess[o].emitted)])]
        /\ threw' = FALSE
        /\ UNCHANGED <<now, config, up, idleCheckTimer, sessions, activeSessions,
                       userSessions, historyCache, historyFile, runtimeStateFile,
                       transcriptFile, received, liveAtCrash, destroyCalls>>

\* removeSubscriber(sessionId, fn)
RemoveSubscriber(sessionId, fn) ==
    LET o == MapGet(sessions, sessionId)
        Other(e) == e.fn # fn
    IN  /\ up
        /\ IF o = 0 THEN UNCHANGED sess
           ELSE sess' = [sess EXCEPT ![o].subscribers = SelectSeq(@, Other)]
        /\ threw' = FALSE
        /\ UNCHANGED <<now, config, up, idleCheckTimer, sessions, activeSessions,
                       userSessions, historyCache, historyFile, runtimeStateFile,
                       transcriptFile, received, liveAtCrash, destroyCalls>>

----------------------------------------------------------------------------
(* Input *)

\* the queueing branch cutting an overfull queue to its oldest entries
Enqueue_keepsOldest(s, tag, data, t) ==
    LET pushed == Append(s.pendingInputs, [tag |-> tag, data |-> data])
        touched == _touchSession(s, t)
    IN  IF Len(pushed) > PendingHigh
        THEN [touched EXCEPT !.pendingInputs = SubSeq(pushed, 1, PendingKeep),
                             !.dropped = @ + (Len(pushed) - PendingKeep)]
        ELSE [touched EXCEPT !.pendingInputs = pushed]

\* the queueing branch of sendInput / sendChatInput
Enqueue(s, tag, data, t) ==
    LET pushed == Append(s.pendingInputs, [tag |-> tag, data |-> data])
        touched == _touchSession(s, t)
    IN  IF Len(pushed) > PendingHigh
        THEN [touched EXCEPT !.pendingInputs = SliceLast(pushed, PendingKeep),
                             !.dropped = @ + (Len(pushed) - PendingKeep)]
        ELSE [touched EXCEPT !.pendingInputs = pushed]

\* typeNext of _simulateTyping for the closure c = [tag, chars, index];
\* registered is this.sessions.has(session.sessionId)
TypeNextStep(s, c, registered) ==
    LET batchSize == IF Len(c.chars) - c.index < TypingBatch
                     THEN Len(c.chars) - c.index ELSE TypingBatch
        batch == SubSeq(c.chars, c.index + 1, c.index + batchSize)
        written == PtyWrite(s, c.tag, batch)
    IN  IF c.index >= Len(c.chars) \/ ~registered THEN s
        ELSE IF c.index + batchSize < Len(c.chars)
             THEN [written EXCEPT !.typing =
                      Append(@, [c EXCEPT !.index = c.index + batchSize])]
             ELSE written

_simulateTyping(s, text, tag) ==
    IF text = <<>> THEN s
    ELSE TypeNextStep(s, [tag |-> tag, chars |-> text, index |-> 0], TRUE)

\* sendInput(sessionId, text)
SendInput(sessionId, text) ==
    LET o == MapGet(sessions, sessionId)
        session == sess[o]
        tag == session.submitted + 1
        s1 == [_appendTerminalInputReplay(session, text) EXCEPT !.submitted = tag]
    IN  /\ up
        /\ IF o = 0
           THEN /\ threw' = TRUE
                /\ UNCHANGED sess
           ELSE /\ sess' = [sess EXCEPT ![o] =
                              IF ~s1.started THEN Enqueue(s1, tag, text, now)
                              ELSE PtyWrite(_touchSession(s1, now), tag, text)]
                /\ threw' = FALSE
        /\ UNCHANGED <<now, config, up, idleCheckTimer, sessions, activeSessions,
                       userSessions, historyCache, historyFile, runtimeStateFile,
                       transcriptFile, received, liveAtCrash, destroyCalls>>

\* sendChatInput(sessionId, text)
SendChatInput(sessionId, text) ==
    LET o == MapGet(sessions, sessionId)
        session == sess[o]
        tag == session.submitted + 1
        fullText == text \o <<"CR">>
        s1 == [_appendTerminalInputReplay(session, fullText) EXCEPT !.submitted = tag]
        s2 == _touchSession(s1, now)
    IN  /\ up
        /\ IF o = 0
           THEN /\ threw' = TRUE
                /\ UNCHANGED sess
           ELSE /\ sess' = [sess EXCEPT ![o] =
                              IF ~s1.started THEN Enqueue(s1, tag, fullText, now)
                              ELSE IF s2.agentId = "gemini"
                                   THEN _simulateTyping(s2, fullText, tag)
                                   ELSE PtyWrite(s2, tag, fullText)]
                /\ threw' = FALSE
        /\ UNCHANGED <<now, config, up, idleCheckTimer, sessions, activeSessions,
                       userSessions, historyCache, historyFile, runtimeStateFile,
                       transcriptFile, received, liveAtCrash, destroyCalls>>

\* a setTimeout(typeNext, charDelay) callback of the object o fires; timers
\* of equal delay fire in the order they were set
TypeNext(o) ==
    LET session == sess[o]
        c == Head(session.typing)
    IN  /\ up
        /\ o \in DOMAIN sess
        /\ session.typing # <<>>
        /\ sess' = [sess EXCEPT ![o] =
                      TypeNextStep([session EXCEPT !.typing = Tail(@)], c,
                                   MapHas(sessions, session.sessionId))]
        /\ threw' = FALSE
        /\ UNCHANGED <<now, config, up, idleCheckTimer, sessions, activeSessions,
                       userSessions, historyCache, historyFile, runtimeStateFile,
                       transcriptFile, received, liveAtCrash, destroyCalls>>

----------------------------------------------------------------------------
(* Transcript *)

\* text.replace(/\s+/g, ' ')
RECURSIVE CollapseBlanks(_, _, _)
CollapseBlanks(text, i, acc) ==
    IF i > Len(text) THEN acc
    ELSE IF text[i] \in Whitespace
         THEN CollapseBlanks(text, i + 1,
                             IF i > 1 /\ text[i - 1] \in Whitespace THEN acc
                             ELSE Append(acc, " "))
         ELSE CollapseBlanks(text, i + 1, Append(acc, text[i]))

\* the title recordUserMessage derives from the first user message
TitleFrom(text, modelId) ==
    LET trimmed == Trim(CollapseBlanks(text, 1, <<>>))
        short == SubSeq(trimmed, 1, IF Len(trimmed) < TitleLen THEN Len(trimmed)
                                    ELSE TitleLen)
    IN  (IF short = <<>> THEN <<"NewChat">> ELSE short) \o <<".", modelId>>

\* recordUserMessage(sessionId, text)
RecordUserMessage(sessionId, text) ==
    LET o == MapGet(sessions, sessionId)
        session == sess[o]
        isFirstUserMsg == ~\E i \in 1..Len(session.messages) : IsUser(session.messages[i])
        pushed == Append(session.messages, [role |-> "user", content |-> text])
        s1 == [_touchSession(session, now) EXCEPT
                 !.messages = IF Len(pushed) > MessagesHigh
                              THEN SliceLast(pushed, MessagesKeep) ELSE pushed,
                 !.userMessageCount = @ + 1,
                 !.title = IF isFirstUserMsg THEN TitleFrom(text, session.modelId)
                           ELSE @,
                 !.lastAssistantIndex = 0]
    IN  /\ up
        /\ IF o = 0
           THEN /\ threw' = TRUE
                /\ UNCHANGED <<sess, runtimeStateFile>>
           ELSE /\ sess' = [sess EXCEPT ![o] = s1]
                /\ runtimeStateFile' =
                       _persistRuntimeState([Registry EXCEPT !.sess[o] = s1]).runtimeStateFile
                /\ threw' = FALSE
        /\ UNCHANGED <<now, config, up, idleCheckTimer, sessions, activeSessions,
                       userSessions, historyCache, historyFile, transcriptFile,
                       received, liveAtCrash, destroyCalls>>

----------------------------------------------------------------------------
(* Files and terminal size *)

\* addFile(sessionId, filePath, fileName); the session keeps a list of which
\* only the length is read back
AddFile(sessionId) ==
    LET o == MapGet(sessions, sessionId)
        s1 == [_touchSession(sess[o], now) EXCEPT !.files = @ + 1]
    IN  /\ up
        /\ IF o = 0
           THEN UNCHANGED <<sess, runtimeStateFile>>
           ELSE /\ sess' = [sess EXCEPT ![o] = s1]
                /\ runtimeStateFile' =
                       _persistRuntimeState([Registry EXCEPT !.sess[o] = s1]).runtimeStateFile
        /\ threw' = FALSE
        /\ UNCHANGED <<now, config, up, idleCheckTimer, sessions, activeSessions,
                       userSessions, historyCache, historyFile, transcriptFile,
                       received, liveAtCrash, destroyCalls>>

\* resize(sessionId, cols, rows)
Resize(sessionId, cols, rows) ==
    LET o == MapGet(sessions, sessionId)
    IN  /\ up
        /\ IF o = 0 THEN UNCHANGED sess
           ELSE sess' = [sess EXCEPT ![o].cols = cols, ![o].rows = rows]
        /\ threw' = FALSE
        /\ UNCHANGED <<now, config, up, idleCheckTimer, sessions, activeSessions,
                       userSessions, historyCache, historyFile, runtimeStateFile,
                       transcriptFile, received, liveAtCrash, destroyCalls>>

----------------------------------------------------------------------------
(* Session end *)

\* the process of the object o exits (by itself or after pty.kill()) and its
\* onExit handler runs
OnExit(o) ==
    /\ up
    /\ o \in DOMAIN sess
    /\ sess[o].pty \in {"running", "killed"}
    /\ Commit(OnExitHandler(Registry, o, now))
    /\ threw' = FALSE
    /\ UNCHANGED <<now, config, up, idleCheckTimer, received, liveAtCrash, destroyCalls>>

DestroyCount(sessionId) ==
    IF sessionId \in DOMAIN destroyCalls THEN destroyCalls[sessionId] ELSE 0

\* a call of destroySession(sessionId): the 'stop' and 'stop_session'
\* messages of server.js
DestroySession(sessionId) ==
    /\ up
    /\ Commit(destroySession(Registry, sessionId, now))
    /\ threw' = FALSE
    /\ destroyCalls' = [id \in DOMAIN destroyCalls \cup {sessionId} |->
                          IF id = sessionId
                          THEN (IF DestroyCount(sessionId) = 0 THEN 1 ELSE 2)
                          ELSE destroyCalls[id]]
    /\ UNCHANGED <<now, config, up, idleCheckTimer, received, liveAtCrash>>

----------------------------------------------------------------------------
(* The disk.  An operation finds the disk "ok", "full" (files are read,     *)
(* every write throws) or "down" (reads and writes throw).  The operators   *)
(* and actions above are those of the disk that is "ok".                    *)

DiskStates == {"ok", "full", "down"}

\* _readHistoryForUser on the given disk: a read that throws is caught and
\* yields the empty list
_readHistoryOnDisk(cache, file, username, t, disk) ==
    IF cache[username].has THEN cache[username].items
    ELSE IF disk = "down" THEN <<>>
    ELSE _compactHistory(file[username], t)

\* _persistRuntimeState on the given disk: a write that throws is caught and
\* leaves the file as it was
_persistRuntimeStateOnDisk(R, disk) ==
    IF disk = "ok" THEN _persistRuntimeState(R) ELSE R

\* _writeHistoryForUser whose fs.writeFileSync throws: the cache is set, the
\* file is not written
_writeHistoryThrows(R, username, history, t) ==
    [R EXCEPT !.historyCache[username] =
        [has |-> TRUE, items |-> _compactHistory(history, t)]]

\* _saveHistory(session) up to the point where _writeHistoryForUser throws,
\* on a disk that is not "ok"
_saveHistoryThrows(R, o, t, disk) ==
    LET session == R.sess[o]
        history == _readHistoryOnDisk(R.historyCache, R.historyFile,
                                      session.username, t, disk)
        entry == _normalizeHistoryItem(
                     HistoryItem(session.sessionId, session.agentId,
                                 session.modelId, session.mode,
                                 session.createdAt, t, session.files,
                                 session.title, ""), t)
        Is(h) == h.sessionId = entry.sessionId
        idx == FindIndex([i_ \in 1..Len(history) |-> Is(history[i_])])
        next == IF idx > 0 THEN [history EXCEPT ![idx] = entry]
                ELSE Append(history, entry)
    IN  _writeHistoryThrows([R EXCEPT !.sess[o].historySaved = TRUE],
                            session.username, next, t)

\* destroySession(sessionId) on the given disk.  When the history has to be
\* written and the write throws, the exception leaves _saveHistory and
\* destroySession: the statements after the call of _saveHistory do not run.
DestroySessionOnDisk(sessionId, disk) ==
    LET o == MapGet(sessions, sessionId)
        R1 == [Registry EXCEPT
                 !.sess[o].readyFallbackTimer = FALSE,
                 !.sess[o].pty = IF @ = "running" THEN "killed" ELSE @,
                 !.sess[o].kills = @ + 1]
    IN  /\ up
        /\ IF disk = "ok" \/ o = 0
           THEN /\ Commit(destroySession(Registry, sessionId, now))
                /\ threw' = FALSE
           ELSE IF sess[o].historySaved
           THEN /\ Commit([destroySession(Registry, sessionId, now)
                              EXCEPT !.runtimeStateFile = runtimeStateFile])
                /\ threw' = FALSE
           ELSE /\ Commit(_saveHistoryThrows(R1, o, now, disk))
                /\ threw' = TRUE
        /\ destroyCalls' = [id \in DOMAIN destroyCalls \cup {sessionId} |->
                              IF id = sessionId
                              THEN (IF DestroyCount(sessionId) = 0 THEN 1 ELSE 2)
                              ELSE destroyCalls[id]]
        /\ UNCHANGED <<now, config, up, idleCheckTimer, received, liveAtCrash>>

\* the onExit handler of the object o on the given disk
OnExitOnDisk(o, disk) ==
    LET R1 == [Registry EXCEPT !.sess[o].readyFallbackTimer = FALSE,
                               !.sess[o].pty = "exited"]
    IN  /\ up
        /\ o \in DOMAIN sess
        /\ sess[o].pty \in {"running", "killed"}
        /\ IF disk = "ok"
           THEN /\ Commit(OnExitHandler(Registry, o, now))
                /\ threw' = FALSE
           ELSE IF sess[o].historySaved
           THEN /\ Commit([OnExitHandler(Registry, o, now)
                              EXCEPT !.runtimeStateFile = runtimeStateFile])
                /\ threw' = FALSE
           ELSE /\ Commit(_saveHistoryThrows(R1, o, now, disk))
                /\ threw' = TRUE
        /\ UNCHANGED <<now, config, up, idleCheckTimer, received, liveAtCrash,
                       destroyCalls>>

\* getUserSessionHistory(username) on the given disk: the history is read
\* and cached; nothing is written
GetUserSessionHistory(username, disk) ==
    /\ up
    /\ historyCache' = [historyCache EXCEPT ![username] =
          [has |-> TRUE,
           items |-> _readHistoryOnDisk(historyCache, historyFile, username,
                                        now, disk)]]
    /\ threw' = FALSE
    /\ UNCHANGED <<now, config, up, idleCheckTimer, sess, sessions,
                   activeSessions, userSessions, historyFile, runtimeStateFile,
                   transcriptFile, received, liveAtCrash, destroyCalls>>

\* setSessionTitle(username, sessionId, title) on the given disk: the title
\* of the registered session and of the history entry of the id are set
SetSessionTitle(username, sessionId, title, disk) ==
    LET o == MapGet(sessions, sessionId)
        R1 == IF o # 0 /\ sess[o].username = username
              THEN _persistRuntimeStateOnDisk(
                       [Registry EXCEPT !.sess[o].title = title], disk)
              ELSE Registry
        history == _readHistoryOnDisk(historyCache, historyFile, username,
                                      now, disk)
        Is(h) == h.sessionId = sessionId
        idx == FindIndex([i_ \in 1..Len(history) |-> Is(history[i_])])
        renamed == [history EXCEPT ![idx].title = title]
        store == _writeHistoryForUser(
                     [cache |-> R1.historyCache, file |-> R1.historyFile],
                     username, renamed, now)
    IN  /\ up
        /\ IF idx = 0
           THEN /\ Commit([R1 EXCEPT !.historyCache[username] =
                              [has |-> TRUE, items |-> history]])
                /\ threw' = FALSE
           ELSE IF disk = "ok"
           THEN /\ Commit([R1 EXCEPT !.historyCache = store.cache,
                                     !.historyFile = store.file])
                /\ threw' = FALSE
           ELSE /\ Commit(_writeHistoryThrows(R1, username, renamed, now))
                /\ threw' = TRUE
        /\ UNCHANGED <<now, config, up, idleCheckTimer, received, liveAtCrash,
                       destroyCalls>>

\* deleteSessionHistory(username, sessionId) on the given disk
DeleteSessionHistory(username, sessionId, disk) ==
    LET history == _readHistoryOnDisk(historyCache, historyFile, username,
                                      now, disk)
        Other(h) == h.sessionId # sessionId
        next == SelectSeq(history, Other)
        store == _writeHistoryForUser(
                     [cache |-> historyCache, file |-> historyFile],
                     username, next, now)
        key == <<username, sessionId>>
    IN  /\ up
        /\ IF disk = "ok"
           THEN /\ historyCache' = store.cache
                /\ historyFile' = store.file
                /\ transcriptFile' =
                       [k \in (DOMAIN transcriptFile) \ {key} |-> transcriptFile[k]]
                /\ threw' = FALSE
           ELSE /\ historyCache' =
                       _writeHistoryThrows(Registry, username, next, now).historyCache
                /\ UNCHANGED <<historyFile, transcriptFile>>
                /\ threw' = TRUE
        /\ UNCHANGED <<now, config, up, idleCheckTimer, sess, sessions,
                       activeSessions, userSessions, runtimeStateFile, received,
                       liveAtCrash, destroyCalls>>

----------------------------------------------------------------------------
(* Idle reaper *)

\* staleIds with an idle time equal to the timeout counted as stale
StaleIds_atThreshold(R, t) ==
    LET Stale(e) ==
            LET session == R.sess[e.obj]
                last == IF session.lastActivityAt # 0 THEN session.lastActivityAt
                        ELSE IF session.createdAt # 0 THEN session.createdAt
                        ELSE t
            IN  t - last >= inactiveSessionTimeout.value
        stale == SelectSeq(R.sessions, Stale)
    IN  [i \in 1..Len(stale) |-> stale[i].id]

\* staleIds of _cleanupInactiveSessions, in Map order
StaleIds(R, t) ==
    LET Stale(e) ==
            LET session == R.sess[e.obj]
                last == IF session.lastActivityAt # 0 THEN session.lastActivityAt
                        ELSE IF session.createdAt # 0 THEN session.createdAt
                        ELSE t
            IN  t - last > inactiveSessionTimeout.value
        stale == SelectSeq(R.sessions, Stale)
    IN  [i \in 1..Len(stale) |-> stale[i].id]

\* the second loop of _cleanupInactiveSessions
RECURSIVE ReapFrom(_, _, _, _)
ReapFrom(R, staleIds, i, t) ==
    IF i > Len(staleIds) THEN R
    ELSE LET o == MapGet(R.sessions, staleIds[i])
             R1 == destroySession(R, staleIds[i], t)
         IN  ReapFrom(IF o = 0 THEN R1
                      ELSE [_markUserSessionEnded(R1, R.sess[o].username,
                                                  staleIds[i], t)
                            EXCEPT !.sess[o].reaped = TRUE],
                      staleIds, i + 1, t)

_cleanupInactiveSessions(R, t) ==
    IF inactiveSessionTimeout.kind # "number" \/ inactiveSessionTimeout.value <= 0
    THEN R
    ELSE ReapFrom(R, StaleIds(R, t), 1, t)

\* the setInterval callback of the constructor fires
Sweep ==
    /\ up
    /\ idleCheckTimer
    /\ Commit(_cleanupInactiveSessions(Registry, now))
    /\ threw' = FALSE
    /\ UNCHANGED <<now, config, up, idleCheckTimer, received, liveAtCrash, destroyCalls>>

\* the number of clock steps so far, each of 1 ms or of the default idle
\* timeout
TicksSoFar ==
    ((now - 1) \div DefaultInactiveTimeout) + ((now - 1) % DefaultInactiveTimeout)

\* the clock advances by d
Tick(d, maxTicks) ==
    /\ TicksSoFar < maxTicks
    /\ now' = now + d
    /\ threw' = FALSE
    /\ UNCHANGED <<config, up, idleCheckTimer, sess, sessions, activeSessions,
                   userSessions, historyCache, historyFile, runtimeStateFile,
                   transcriptFile, received, liveAtCrash, destroyCalls>>

----------------------------------------------------------------------------
(* destroyAll *)

\* the loop of destroyAll over the keys of the session map
RECURSIVE DestroyFrom(_, _, _, _)
DestroyFrom(R, ids, i, t) ==
    IF i > Len(ids) THEN R
    ELSE DestroyFrom(destroySession(R, ids[i], t), ids, i + 1, t)

\* destroyAll that leaves the first session of the map alone
destroyAll_skipsFirst(R, t) ==
    _persistRuntimeState(
        DestroyFrom(R, [i \in 1..Len(R.sessions) |-> R.sessions[i].id], 2, t))

\* destroyAll(): every session of the map is destroyed, then the snapshot
\* is written once more
destroyAll(R, t) ==
    _persistRuntimeState(
        DestroyFrom(R, [i \in 1..Len(R.sessions) |-> R.sessions[i].id], 1, t))

\* a call of destroyAll(): the SIGINT and SIGTERM handlers of server.js
DestroyAll ==
    /\ up
    /\ idleCheckTimer' = FALSE
    /\ Commit(destroyAll(Registry, now))
    /\ threw' = FALSE
    /\ destroyCalls' =
           [id \in DOMAIN destroyCalls \cup {sessions[k].id : k \in DOMAIN sessions} |->
               IF id \in {sessions[k].id : k \in DOMAIN sessions}
               THEN (IF DestroyCount(id) = 0 THEN 1 ELSE 2)
               ELSE destroyCalls[id]]
    /\ UNCHANGED <<now, config, up, received, liveAtCrash>>

----------------------------------------------------------------------------
(* Stop and restart of the service *)

EmptyCache == [u \in AllUsers |-> [has |-> FALSE, items |-> <<>>]]

\* the loop of _recoverRuntimeState over the sessions of the snapshot
RECURSIVE RecoverFrom(_, _, _, _)
RecoverFrom(store, active, i, t) ==
    IF i > Len(active) THEN store
    ELSE LET item == active[i]
             normalized == _normalizeHistoryItem(
                               HistoryItem(item.sessionId, item.agentId,
                                           item.modelId, item.mode,
                                           item.createdAt, t, item.filesCount,
                                           item.title, "server_restart"), t)
             history == _readHistoryForUser(store.cache, store.file,
                                            item.username, t)
             Other(h) == h.sessionId # normalized.sessionId
             next == Append(SelectSeq(history, Other), normalized)
         IN  RecoverFrom(_writeHistoryForUser(store, item.username, next, t),
                         active, i + 1, t)

\* _recoverRuntimeState that does not read the snapshot
_recoverRuntimeState_ignoresSnapshot(store, snapshot, t) == store

\* _recoverRuntimeState: store = [cache, file]
_recoverRuntimeState(store, snapshot, t) ==
    IF ~snapshot.exists THEN store
    ELSE RecoverFrom(store, snapshot.activeSessions, 1, t)

\* the service stops without destroying its sessions: what is in memory is
\* lost, the files stay
Crash ==
    /\ up
    /\ up' = FALSE
    /\ idleCheckTimer' = FALSE
    /\ liveAtCrash' = [i \in 1..Len(sessions) |->
                         [sessionId |-> sessions[i].id,
                          username |-> sess[sessions[i].obj].username,
                          createdAt |-> sess[sessions[i].obj].createdAt]]
    /\ sess' = <<>>
    /\ sessions' = <<>>
    /\ activeSessions' = [u \in AllUsers |-> <<>>]
    /\ userSessions' = [u \in AllUsers |-> <<>>]
    /\ historyCache' = EmptyCache
    /\ received' = [v \in Subscribers |-> <<>>]
    /\ destroyCalls' = << >>
    /\ threw' = FALSE
    /\ UNCHANGED <<now, config, historyFile, runtimeStateFile, transcriptFile>>

\* new SessionManager(config) over the same history directory
Restart(inactiveTimeout) ==
    LET store == _recoverRuntimeState([cache |-> historyCache, file |-> historyFile],
                                      runtimeStateFile, now)
    IN  /\ ~up
        /\ up' = TRUE
        /\ config' = inactiveTimeout
        /\ idleCheckTimer' = TRUE
        /\ historyCache' = store.cache
        /\ historyFile' = store.file
        /\ runtimeStateFile' = NoSnapshot
        /\ threw' = FALSE
        /\ UNCHANGED <<now, sess, sessions, activeSessions, userSessions,
                       transcriptFile, received, liveAtCrash, destroyCalls>>

\* the state after new SessionManager(config) over an empty history directory
InitWith(timeouts) ==
    /\ now = 1
    /\ config \in timeouts
    /\ up = TRUE
    /\ idleCheckTimer = TRUE
    /\ sess = <<>>
    /\ sessions = <<>>
    /\ activeSessions = [u \in AllUsers |-> <<>>]
    /\ userSessions = [u \in AllUsers |-> <<>>]
    /\ historyCache = EmptyCache
    /\ historyFile = [u \in AllUsers |-> <<>>]
    /\ runtimeStateFile = NoSnapshot
    /\ transcriptFile = << >>
    /\ received = [v \in Subscribers |-> <<>>]
    /\ liveAtCrash = <<>>
    /\ destroyCalls = << >>
    /\ threw = FALSE

----------------------------------------------------------------------------
(* Specification of the registry life cycle: sessions are created, are      *)
(* destroyed (once or several times), are reaped, and their processes exit, *)
(* within a few milliseconds.                                               *)

MaxSessions == 2
MaxTicks == 2

KnownIds == UNION {{userSessions[u][i].sessionId : i \in 1..Len(userSessions[u])} : u \in AllUsers}

Next ==
    \/ /\ Len(sess) < MaxSessions
       /\ CreateSession("alice", "codex", "default", "chat")
    \/ \E o \in DOMAIN sess : OnExit(o)
    \/ \E id \in KnownIds : DestroySession(id)
    \/ Sweep
    \/ Tick(1, MaxTicks)

Spec == InitWith({Num(1)}) /\ [][Next]_vars

\* C1: for every session, whatever the interleaving of destroySession calls,
\* process exits and reaper sweeps, the guard _historySaved never goes back
\* from true to false, so it is set at most once, and the history record of
\* the session is written at most once.
C1_HistorySavedOnce ==
    [][\A o \in DOMAIN sess :
          /\ sess[o].historySaved => sess'[o].historySaved
          /\ sess'[o].saves <= 1
          /\ sess'[o].saves >= sess[o].saves]_vars

\* a session that was destroyed, whose process then exited, saved once
C1_Witness ==
    \E o \in DOMAIN sess :
        /\ sess[o].kills >= 1
        /\ sess[o].pty = "exited"
        /\ sess[o].historySaved
        /\ sess[o].saves = 1

RegistryState ==
    <<sess, sessions, activeSessions, userSessions, historyCache, historyFile,
      runtimeStateFile, transcriptFile>>

\* C3: a second destroySession(id), made after the first one returned and
\* whether or not the process exit was handled in between, changes neither
\* the session map, the active lists, the durable history nor the snapshot,
\* and raises no error.
C3_DestroyIdempotent ==
    [][\A id \in KnownIds :
          (DestroyCount(id) >= 1 /\ DestroySession(id))
              => (UNCHANGED RegistryState /\ ~threw')]_vars

\* destroySession was called twice on one session, at different times
C3_Witness ==
    \E id \in DOMAIN destroyCalls :
        /\ destroyCalls[id] = 2
        /\ \E o \in DOMAIN sess :
              /\ sess[o].sessionId = id
              /\ sess[o].kills = 1
              /\ sess[o].createdAt < now

----------------------------------------------------------------------------
(* Specification of the idle reaper: every kind of configured timeout, and  *)
(* a clock that also jumps by the default timeout.                          *)

ReaperSessions == 2
ReaperTicks == 2

Timeouts == {Undefined, Num(0), Num(0 - 1), Num(1), NaN, Infinity, NonNumeric}

NextReaper ==
    \/ /\ Len(sess) < ReaperSessions
       /\ CreateSession("alice", "codex", "default", "chat")
    \/ \E o \in DOMAIN sess : OnExit(o)
    \/ Sweep
    \/ \E d \in {1, DefaultInactiveTimeout} : Tick(d, ReaperTicks)

SpecReaper == InitWith(Timeouts) /\ [][NextReaper]_vars

\* the reaper is enabled: this.inactiveSessionTimeout is finite and positive
ReaperEnabled ==
    inactiveSessionTimeout.kind = "number" /\ inactiveSessionTimeout.value > 0

\* C7: one sweep of the enabled idle reaper destroys exactly the registered
\* sessions idle for more than the threshold, each as destroySession does
\* (process told to terminate, history record saved, removed from the map
\* and from the owner's active list), and leaves every session idle for the
\* threshold or less registered and unchanged.
C7_SweepDestroysExactlyStale ==
    [][(Sweep /\ ReaperEnabled) =>
          \A k \in DOMAIN sessions :
              LET id == sessions[k].id
                  o == sessions[k].obj
                  idle == now - sess[o].lastActivityAt
              IN  IF idle > inactiveSessionTimeout.value
                  THEN /\ ~MapHas(sessions', id)
                       /\ id \notin Range(activeSessions'[sess[o].username])
                       /\ sess'[o].historySaved
                       /\ sess'[o].saves = 1
                       /\ sess'[o].kills = sess[o].kills + 1
                       /\ sess'[o].pty = "killed"
                  ELSE /\ MapGet(sessions', id) = o
                       /\ sess'[o] = sess[o]
                       /\ id \in Range(activeSessions'[sess[o].username])]_vars

\* a sweep reaped one session and left a younger one registered
C7_Witness ==
    \E o1, o2 \in DOMAIN sess :
        /\ sess[o1].reaped
        /\ ~MapHas(sessions, sess[o1].sessionId)
        /\ MapGet(sessions, sess[o2].sessionId) = o2
        /\ sess[o2].pty = "running"
        /\ now - sess[o2].lastActivityAt = inactiveSessionTimeout.value

\* the configured timeouts that are non-positive or not a finite number
DisabledTimeouts == {Num(0), Num(0 - 1), NaN, Infinity, NonNumeric}

\* C8: when the configured inactiveSessionTimeout is zero, negative or not a
\* valid finite number, the reaper never destroys a session, however long it
\* stays idle.
C8_DisabledNeverReaps ==
    config \in DisabledTimeouts => \A o \in DOMAIN sess : ~sess[o].reaped

----------------------------------------------------------------------------
(* Specification of the input of one session: it is created, started and   *)
(* made ready (by a prompt of the program or by the fallback timer) while   *)
(* inputs are submitted and typed.                                          *)

InInputs == 2
InOutputs == 1

\* a text of TypingBatch characters: with the "\r" of sendChatInput it needs
\* two batches of _simulateTyping
LongText == [i \in 1..TypingBatch |-> "b"]

InputTexts == {<<"a">>, LongText}

RegisteredIds == {sessions[k].id : k \in DOMAIN sessions}

NextIn ==
    \/ \E agentId \in Agents, mode \in Modes :
          /\ sess = <<>>
          /\ CreateSession("alice", agentId, "default", mode)
    \/ \E o \in DOMAIN sess : StartTimer(o)
    \/ \E o \in DOMAIN sess : FallbackTimer(o)
    \/ \E o \in DOMAIN sess :
          /\ Len(sess[o].emitted) < InOutputs
          /\ OnData(o, <<"READY">>)
    \/ \E id \in RegisteredIds, text \in InputTexts :
          /\ sess[MapGet(sessions, id)].submitted < InInputs
          /\ SendInput(id, text)
    \/ \E id \in RegisteredIds, text \in InputTexts :
          /\ sess[MapGet(sessions, id)].submitted < InInputs
          /\ SendChatInput(id, text)
    \/ \E o \in DOMAIN sess : TypeNext(o)

SpecIn == InitWith({Num(1)}) /\ [][NextIn]_vars

\* C9: the bytes written to the process of a READY session are the inputs
\* in submission order: of two inputs submitted after the session became
\* ready, every byte of the first is written before any byte of the second,
\* the paced batches of the 'gemini' program included.
C9_ReadyInputsInOrder ==
    \A o \in DOMAIN sess :
        \A i, j \in DOMAIN sess[o].ptyWrites :
            (/\ sess[o].started
             /\ i < j
             /\ sess[o].ptyWrites[i].tag > sess[o].submittedBeforeReady
             /\ sess[o].ptyWrites[j].tag > sess[o].submittedBeforeReady)
                => sess[o].ptyWrites[i].tag <= sess[o].ptyWrites[j].tag

----------------------------------------------------------------------------
(* Specification of the output of one session: the program prints while     *)
(* viewers subscribe and unsubscribe and the user's messages are recorded.  *)

OutOutputs == 2
OutMessages == 1

OutputChunks == {<<"a", "CR", "LF">>, <<"NOISE", "LF">>}

NextOut ==
    \/ \E mode \in Modes :
          /\ sess = <<>>
          /\ CreateSession("alice", "codex", "default", mode)
    \/ \E o \in DOMAIN sess, data \in OutputChunks :
          /\ Len(sess[o].emitted) < OutOutputs
          /\ OnData(o, data)
    \/ \E id \in RegisteredIds, fn \in Subscribers : AddSubscriber(id, fn)
    \/ \E id \in RegisteredIds, fn \in Subscribers : RemoveSubscriber(id, fn)
    \/ \E id \in RegisteredIds :
          /\ sess[MapGet(sessions, id)].userMessageCount < OutMessages
          /\ RecordUserMessage(id, <<"a">>)

SpecOut == InitWith({Num(1)}) /\ [][NextOut]_vars

\* the chunks in one text
RECURSIVE Flatten(_)
Flatten(chunks) ==
    IF chunks = <<>> THEN <<>> ELSE Head(chunks) \o Flatten(Tail(chunks))

\* the text of the transcript: the contents of the messages, in order
TranscriptText(s) == Flatten([i \in 1..Len(s.messages) |-> s.messages[i].content])

\* C6: when a session has several subscribers and one of them throws on
\* every invocation, a chunk of output still reaches every other subscriber,
\* after the chunks it received before, the exception does not leave the
\* output handler, and the raw buffer, the replay buffer and the transcript
\* are updated with the chunk.
C6_ThrowingSubscriberIsolated ==
    [][\A o \in DOMAIN sess, data \in OutputChunks :
          (/\ OnData(o, data)
           /\ \E k \in DOMAIN sess[o].subscribers :
                  sess[o].subscribers[k].fn \in ThrowingSubscribers)
          => /\ ~threw'
             /\ \A k \in DOMAIN sess[o].subscribers :
                    LET fn == sess[o].subscribers[k].fn
                    IN  received'[fn] =
                            Append(received[fn], [obj |-> o, data |-> data])
             /\ sess'[o].outputBuffer = sess[o].outputBuffer \o data
             /\ sess'[o].mode = "terminal" =>
                    sess'[o].terminalReplayBuffer =
                        sess[o].terminalReplayBuffer \o SanitizeTerminalOutput(data)
             /\ (sess'[o].mode = "chat" /\ sess[o].userMessageCount > 0) =>
                    TranscriptText(sess'[o]) =
                        TranscriptText(sess[o]) \o _filterAssistantNoiseChunk(data)]_vars

\* a subscriber registered after the throwing one received two chunks
C6_Witness ==
    \E o \in DOMAIN sess :
        /\ Len(sess[o].subscribers) = 2
        /\ sess[o].subscribers[1].fn \in ThrowingSubscribers
        /\ sess[o].subscribers[2].fn \notin ThrowingSubscribers
        /\ sess[o].subscribers[2].from = 0
        /\ Len(received[sess[o].subscribers[2].fn]) = 2
        /\ Len(sess[o].emitted) = 2

\* the chunks a subscriber was handed since it subscribed
ReceivedSince(o, e) ==
    LET got == received[e.fn]
        n == Len(sess[o].emitted) - e.from
    IN  IF Len(got) < n THEN [i \in 1..Len(got) |-> got[i].data]
        ELSE [i \in 1..n |-> got[Len(got) - n + i].data]

\* C10: the output chunks of a session reach every subscriber that stays
\* subscribed, the raw buffer, the replay buffer and the transcript in the
\* order the process emitted them, each chunk once, none skipped: what a
\* subscriber received since it subscribed is the sequence of chunks emitted
\* since then, every buffer is the concatenation of the emitted chunks, and
\* a new chunk goes to the end of the transcript.
C10_OutputInOrder ==
    /\ [](\A o \in DOMAIN sess :
            /\ sess[o].outputBuffer = Flatten(sess[o].emitted)
            /\ sess[o].mode = "terminal" =>
                  sess[o].terminalReplayBuffer =
                      Flatten([i \in 1..Len(sess[o].emitted) |->
                                  SanitizeTerminalOutput(sess[o].emitted[i])])
            /\ \A k \in DOMAIN sess[o].subscribers :
                  ReceivedSince(o, sess[o].subscribers[k]) =
                      SubSeq(sess[o].emitted, sess[o].subscribers[k].from + 1,
                             Len(sess[o].emitted)))
    /\ [][\A o \in DOMAIN sess :
             (/\ sess[o].mode = "chat"
              /\ sess[o].userMessageCount > 0
              /\ sess'[o].emitted # sess[o].emitted)
             => TranscriptText(sess'[o]) =
                    TranscriptText(sess[o]) \o
                        _filterAssistantNoiseChunk(Last(sess'[o].emitted))]_vars

\* a subscriber that joined after the first chunk received the second one,
\* and the transcript of a chat holds output after the user's message
C10_Witness ==
    \E o \in DOMAIN sess :
        /\ Len(sess[o].emitted) = 2
        /\ \E k \in DOMAIN sess[o].subscribers :
              /\ sess[o].subscribers[k].from = 1
              /\ Len(received[sess[o].subscribers[k].fn]) = 1
        /\ \E i \in DOMAIN sess[o].messages :
              sess[o].messages[i].role = "assistant"

----------------------------------------------------------------------------
(* Specification of the pending-input queue: inputs pile up in one session  *)
(* that is not ready yet, past the cap of the queue, until the fallback     *)
(* timer makes it ready.                                                    *)

QueueInputs == 201
QueuePostReady == 1

NextQueue ==
    \/ /\ sess = <<>>
       /\ CreateSession("alice", "codex", "default", "chat")
    \/ \E o \in DOMAIN sess : StartTimer(o)
    \/ \E o \in DOMAIN sess : FallbackTimer(o)
    \/ \E id \in RegisteredIds :
          LET s == sess[MapGet(sessions, id)]
          IN  /\ IF s.started
                 THEN s.submitted < s.submittedBeforeReady + QueuePostReady
                 ELSE s.submitted < QueueInputs
              /\ SendInput(id, <<"a">>)
    \/ \E id \in RegisteredIds :
          /\ sess[MapGet(sessions, id)].submitted = 0
          /\ SendChatInput(id, <<"a">>)

SpecQueue == InitWith({Num(1)}) /\ [][NextQueue]_vars

\* the tags of the inputs written to the process of s among those submitted
\* before s became ready, in the order written
FlushedTags(s) ==
    LET Queued(w) == w.tag >= 1 /\ w.tag <= s.submittedBeforeReady
        flushed == SelectSeq(s.ptyWrites, Queued)
    IN  [i \in 1..Len(flushed) |-> flushed[i].tag]

\* no input is written to the process while the session is not ready
NothingBeforeReady(s) ==
    /\ \A i \in DOMAIN s.ptyWrites : s.ptyWrites[i].tag > 0 => s.ptyWrites[i].ready
    /\ ~s.started => \A i \in DOMAIN s.ptyWrites : s.ptyWrites[i].tag = 0

\* C2: the inputs submitted through sendInput or sendChatInput before the
\* session is ready, less the oldest ones the queue dropped when it went over
\* its cap, are written to the process when the session becomes ready, each
\* once and in the order submitted, and no input is written before the
\* session is ready.
C2_QueuedInputsFlushedInOrder ==
    \A o \in DOMAIN sess :
        /\ NothingBeforeReady(sess[o])
        /\ sess[o].started =>
              /\ sess[o].pendingInputs = <<>>
              /\ FlushedTags(sess[o]) =
                     [i \in 1..(sess[o].submittedBeforeReady - sess[o].dropped) |->
                         sess[o].dropped + i]

\* a session became ready after its queue had gone over the cap
C2_Witness ==
    \E o \in DOMAIN sess :
        /\ sess[o].started
        /\ sess[o].dropped = PendingHigh + 1 - PendingKeep
        /\ Len(FlushedTags(sess[o])) = PendingKeep
        /\ sess[o].submitted > sess[o].submittedBeforeReady

\* C2 as stated: every input submitted before the session is ready is
\* written once it is ready, in the order submitted
C2_AllQueuedInputsFlushed ==
    \A o \in DOMAIN sess :
        /\ NothingBeforeReady(sess[o])
        /\ sess[o].started =>
              FlushedTags(sess[o]) = [i \in 1..sess[o].submittedBeforeReady |-> i]

----------------------------------------------------------------------------
(* Specification of the history cap: one session of alice stays open while  *)
(* later ones come and go, one per millisecond, until the history is full;  *)
(* the service may stop and restart while the first session is open.        *)

CapSessions == 81
CapTicks == 81

NextCap ==
    \/ /\ Len(sess) < CapSessions
       /\ Len(sessions) <= 1
       /\ liveAtCrash = <<>>
       /\ sess # <<>> => MapHas(sessions, sess[1].sessionId)
       /\ \A o \in DOMAIN sess : sess[o].createdAt < now
       /\ CreateSession("alice", "codex", "default", "chat")
    \/ /\ \E o \in DOMAIN sess : sess[o].createdAt = now
       /\ Len(sessions) <= 1
       /\ Tick(1, CapTicks)
    \/ \E id \in RegisteredIds : DestroySession(id)
    \/ /\ sess # <<>>
       /\ MapHas(sessions, sess[1].sessionId)
       /\ Crash
    \/ Restart(Num(1))

SpecCap == InitWith({Num(1)}) /\ [][NextCap]_vars

\* the entries of the durable history of username for sessionId
EntriesFor(file, username, sessionId) ==
    {h \in DOMAIN file[username] : file[username][h].sessionId = sessionId}

\* the sessions of username, other than sessionId, that the durable history
\* or the list live holds and that were created at createdAt or later
NewerThan(username, sessionId, createdAt, live) ==
    {historyFile[username][h].sessionId : h \in
        {k \in DOMAIN historyFile[username] :
            /\ historyFile[username][k].sessionId # sessionId
            /\ historyFile[username][k].createdAt >= createdAt}}
    \cup
    {live[i].sessionId : i \in
        {k \in DOMAIN live :
            /\ live[k].username = username
            /\ live[k].sessionId # sessionId
            /\ live[k].createdAt >= createdAt}}

\* C4: after destroySession(id) on a registered session, the process has
\* been told to terminate, id is absent from the session map and from the
\* owner's active list, and the owner's durable history holds one entry for
\* id, unless it already holds HistoryKeep sessions created later, in which
\* case the compaction may drop the entry.
C4_DestroyPostState ==
    [][\A id \in RegisteredIds :
          DestroySession(id) =>
              LET o == MapGet(sessions, id)
                  u == sess[o].username
                  n == Cardinality(EntriesFor(historyFile', u, id))
              IN  /\ sess'[o].kills = sess[o].kills + 1
                  /\ sess'[o].pty # "running"
                  /\ ~MapHas(sessions', id)
                  /\ id \notin Range(activeSessions'[u])
                  /\ n <= 1
                  /\ Cardinality(NewerThan(u, id, sess[o].createdAt, <<>>))
                         < HistoryKeep => n = 1]_vars

\* a destroyed session has its entry in a history that is full
C4_Witness ==
    \E o \in DOMAIN sess :
        /\ sess[o].kills = 1
        /\ ~MapHas(sessions, sess[o].sessionId)
        /\ Len(historyFile[sess[o].username]) = HistoryKeep
        /\ EntriesFor(historyFile, sess[o].username, sess[o].sessionId) # {}

\* C4 as stated: after destroySession(id) on a registered session the
\* owner's durable history holds exactly one entry for id
C4_AlwaysOneEntry ==
    [][\A id \in RegisteredIds :
          DestroySession(id) =>
              Cardinality(EntriesFor(historyFile', sess[MapGet(sessions, id)].username,
                                     id)) = 1]_vars

\* C5: when the service stopped without destroying its sessions, a new
\* SessionManager over the same history directory leaves, for every session
\* registered at the stop, one entry in its owner's durable history, with
\* endedReason 'server_restart', unless HistoryKeep sessions of the owner
\* created later are in the history or were registered too; the snapshot
\* file is gone when the constructor returns.
C5_RecoveryWritesHistory ==
    [][(~up /\ up') =>
          /\ ~runtimeStateFile'.exists
          /\ \A i \in DOMAIN liveAtCrash :
                LET x == liveAtCrash[i]
                    found == EntriesFor(historyFile', x.username, x.sessionId)
                IN  /\ Cardinality(found) <= 1
                    /\ \A h \in found :
                          historyFile'[x.username][h].endedReason = "server_restart"
                    /\ Cardinality(NewerThan(x.username, x.sessionId, x.createdAt,
                                             liveAtCrash)) < HistoryKeep
                          => Cardinality(found) = 1]_vars

\* the service restarted after a stop with two sessions registered, and the
\* history holds the entry of a recovered session
C5_Witness ==
    /\ up
    /\ Len(liveAtCrash) = 2
    /\ ~runtimeStateFile.exists
    /\ \E h \in DOMAIN historyFile["alice"] :
          /\ historyFile["alice"][h].endedReason = "server_restart"
          /\ historyFile["alice"][h].sessionId = liveAtCrash[2].sessionId

\* C5 as stated: after the restart every session registered at the stop has
\* exactly one entry in its owner's durable history
C5_AlwaysRecovered ==
    [][(~up /\ up') =>
          \A i \in DOMAIN liveAtCrash :
              Cardinality(EntriesFor(historyFile', liveAtCrash[i].username,
                                     liveAtCrash[i].sessionId)) = 1]_vars

----------------------------------------------------------------------------
(* Specification of the end of one session: it is destroyed, or its process *)
(* exits, while its timers, its typing closures and the last output of its  *)
(* process are still in flight.                                             *)

EndInputs == 2
EndOutputs == 1

NextEnd ==
    \/ \E agentId \in Agents :
          /\ sess = <<>>
          /\ CreateSession("alice", agentId, "default", "chat")
    \/ \E o \in DOMAIN sess : StartTimer(o)
    \/ \E o \in DOMAIN sess : FallbackTimer(o)
    \/ \E o \in DOMAIN sess :
          /\ Len(sess[o].emitted) < EndOutputs
          /\ OnData(o, <<"READY">>)
    \/ \E id \in KnownIds :
          /\ MapHas(sessions, id) => sess[MapGet(sessions, id)].submitted < EndInputs
          /\ SendInput(id, <<"a">>)
    \/ \E id \in KnownIds :
          /\ MapHas(sessions, id) => sess[MapGet(sessions, id)].submitted < EndInputs
          /\ SendChatInput(id, LongText)
    \/ \E o \in DOMAIN sess : TypeNext(o)
    \/ \E id \in KnownIds : DestroySession(id)
    \/ \E o \in DOMAIN sess : OnExit(o)

SpecEnd == InitWith({Num(1)}) /\ [][NextEnd]_vars

\* C11: once destroySession has returned for a session, no step (startup
\* timer, fallback timer, typing callback, output chunk of the dying process)
\* writes to its process, marks it ready or flushes its pending-input queue.
C11_NothingAfterDestroy ==
    [][\A o \in DOMAIN sess :
          sess[o].kills >= 1 =>
              /\ sess'[o].ptyWrites = sess[o].ptyWrites
              /\ sess'[o].started = sess[o].started
              /\ sess'[o].pendingInputs = sess[o].pendingInputs]_vars

\* the session object o is over: its process exited or destroySession was
\* called on it
Ended(o) == sess[o].pty = "exited" \/ sess[o].kills >= 1

\* the state of the session object o: NOT_STARTED (1), STARTING (2) once the
\* start command is written, READY (3) once session.started is set, EXITED
\* (4) once it is over
StateRank(o) ==
    IF Ended(o) THEN 4
    ELSE IF sess[o].started THEN 3
    ELSE IF sess[o].startCommandSent THEN 2
    ELSE 1

\* C13: the state of a session only moves forward along NOT_STARTED,
\* STARTING, READY, EXITED; once the session is over, sendInput and
\* sendChatInput on its id fail and change nothing, and the flags its state
\* is read from (started, _startCommandSent) never change again.
C13_StateForwardOnly ==
    [][/\ \A o \in DOMAIN sess :
             /\ StateRank(o)' >= StateRank(o)
             /\ Ended(o) =>
                   /\ sess'[o].started = sess[o].started
                   /\ sess'[o].startCommandSent = sess[o].startCommandSent
       /\ \A id \in KnownIds :
             (/\ ~MapHas(sessions, id)
              /\ SendInput(id, <<"a">>) \/ SendChatInput(id, LongText))
                 => (threw' /\ UNCHANGED sess)]_vars

----------------------------------------------------------------------------
(* Session ids (specification Spec: two sessions of one owner and program,  *)
(* created at the same or at different clock readings)                      *)

\* C12: the sessions created during the registry's lifetime have pairwise
\* different ids, also when created at the same clock reading, and a session
\* whose process runs and that was not destroyed is still the one the
\* session map holds under its id.
C12_SessionIdsUnique ==
    /\ \A o1, o2 \in DOMAIN sess :
          o1 # o2 => sess[o1].sessionId # sess[o2].sessionId
    /\ \A o \in DOMAIN sess :
          (sess[o].pty = "running" /\ sess[o].kills = 0)
              => MapGet(sessions, sess[o].sessionId) = o

----------------------------------------------------------------------------
(* The transition to READY (specification SpecIn: the prompt of the program *)
(* and the fallback timer race while inputs are queued)                     *)

\* the chunks written to the process of s, in the order written
WrittenChunks(s) ==
    [k \in DOMAIN s.ptyWrites |->
        [tag |-> s.ptyWrites[k].tag, data |-> s.ptyWrites[k].data]]

\* C14: a session becomes ready at most once (session.started never goes
\* back to false); the step that makes it ready leaves the fallback timer
\* cancelled and the queue empty and writes the queued chunks to the process,
\* each once, unchanged and in queue order; a ready-signature or a fallback
\* timer that comes when the session is already ready writes nothing.
C14_ReadyOnceFlushOnce ==
    [][\A o \in DOMAIN sess :
          /\ sess[o].started => sess'[o].started
          /\ sess'[o].started => sess'[o].pendingInputs = <<>>
          /\ (~sess[o].started /\ sess'[o].started) =>
                /\ ~sess'[o].readyFallbackTimer
                /\ WrittenChunks(sess'[o]) =
                       WrittenChunks(sess[o]) \o sess[o].pendingInputs
          /\ (sess[o].started /\ (FallbackTimer(o) \/ OnData(o, <<"READY">>))) =>
                sess'[o].ptyWrites = sess[o].ptyWrites]_vars

\* a session became ready with two chunks queued, which were written after
\* the start command, and the ready-signature of its program was received
C14_Witness ==
    \E o \in DOMAIN sess :
        /\ sess[o].started
        /\ sess[o].submittedBeforeReady = 2
        /\ Len(sess[o].ptyWrites) = 3
        /\ sess[o].ptyWrites[3].data = LongText \o <<"CR">>
        /\ sess[o].emitted = << <<"READY">> >>
        /\ sess[o].pendingInputs = <<>>

----------------------------------------------------------------------------
(* Specification of the start of sessions whose program never prints a      *)
(* ready-signature.  The event loop of the running service runs every timer *)
(* callback that is due: the startup timer and the fallback timer of each   *)
(* session object are weakly fair.  Nothing obliges a process to exit or a  *)
(* user to act.                                                             *)

LiveSessions == 2
LiveInputs == 1
LiveOutputs == 1
LiveTicks == 1

NextLive ==
    \/ /\ Len(sess) < LiveSessions
       /\ CreateSession("alice", "codex", "default", "chat")
    \/ \E o \in DOMAIN sess : StartTimer(o)
    \/ \E o \in DOMAIN sess : FallbackTimer(o)
    \/ \E o \in DOMAIN sess :
          /\ Len(sess[o].emitted) < LiveOutputs
          /\ OnData(o, <<"a", "CR", "LF">>)
    \/ \E id \in RegisteredIds :
          /\ sess[MapGet(sessions, id)].submitted < LiveInputs
          /\ SendInput(id, <<"a">>)
    \/ \E id \in KnownIds : DestroySession(id)
    \/ \E o \in DOMAIN sess : OnExit(o)
    \/ Tick(1, LiveTicks)

SpecLive ==
    /\ InitWith({Num(1)})
    /\ [][NextLive]_vars
    /\ \A o \in 1..LiveSessions :
          WF_vars(StartTimer(o)) /\ WF_vars(FallbackTimer(o))

\* C15: every session object that is created eventually is ready or over
\* (destroyed or exited), without any ready-signature in its output, and
\* every input queued for it eventually is written to its process unless the
\* session is over.
C15_EventuallyReady ==
    \A o \in 1..LiveSessions :
        /\ (o \in DOMAIN sess)
              ~> (o \in DOMAIN sess /\ (sess[o].started \/ Ended(o)))
        /\ \A k \in 1..LiveInputs :
              (/\ o \in DOMAIN sess
               /\ \E i \in DOMAIN sess[o].pendingInputs :
                     sess[o].pendingInputs[i].tag = k)
                 ~> (/\ o \in DOMAIN sess
                     /\ \/ Ended(o)
                        \/ \E w \in DOMAIN sess[o].ptyWrites :
                              sess[o].ptyWrites[w].tag = k)

----------------------------------------------------------------------------
(* Specification of session creation: sessions of a configured agent and of *)
(* an agent that is not configured are requested while earlier sessions end *)

CreateSessions == 2
CreateTicks == 1

\* an agent id that config.agents does not have
UnknownAgent == "unknown"

NextCreate ==
    \/ /\ Len(sess) < CreateSessions
       /\ CreateSession("alice", "codex", "default", "chat")
    \/ CreateSession("alice", UnknownAgent, "default", "chat")
    \/ \E id \in KnownIds : DestroySession(id)
    \/ \E o \in DOMAIN sess : OnExit(o)
    \/ Tick(1, CreateTicks)

SpecCreate == InitWith({Num(1)}) /\ [][NextCreate]_vars

\* C16: createSession with an agent id that is not configured throws and
\* changes nothing: no session object (no process), no entry in the session
\* map, in the owner's active list or runtime history list, and the same
\* live-sessions snapshot and history as before.
C16_UnknownAgentNoState ==
    [][CreateSession("alice", UnknownAgent, "default", "chat")
          => (threw' /\ UNCHANGED RegistryState)]_vars

\* createSession threw (only an unknown agent makes an operation of this
\* specification throw) while one session was registered and one had ended
C16_Witness ==
    /\ threw
    /\ Len(sessions) = 1
    /\ Len(sess) = 2
    /\ runtimeStateFile.exists
    /\ Len(userSessions["alice"]) = 2

----------------------------------------------------------------------------
(* Specification of the operations on a session id: they are called with    *)
(* the id of a registered session, of a session that ended, and with an id  *)
(* no session ever had.                                                     *)

ErrInputs == 1
ErrMessages == 1
ErrFiles == 1

\* an id no session has: the clock never reads 0
UnknownId == SessionIdOf("alice", "codex", 0)

\* the ids the operations are called with
CalledIds == KnownIds \cup {UnknownId}

\* a terminal size other than the default one
SmallSize == [cols |-> 80, rows |-> 24]

NextErr ==
    \/ /\ sess = <<>>
       /\ CreateSession("alice", "codex", "default", "chat")
    \/ \E id \in KnownIds : DestroySession(id)
    \/ \E id \in CalledIds :
          /\ MapHas(sessions, id) => sess[MapGet(sessions, id)].submitted < ErrInputs
          /\ SendInput(id, <<"a">>)
    \/ \E id \in CalledIds :
          /\ MapHas(sessions, id) => sess[MapGet(sessions, id)].submitted < ErrInputs
          /\ SendChatInput(id, <<"a">>)
    \/ \E id \in CalledIds :
          /\ MapHas(sessions, id) => sess[MapGet(sessions, id)].userMessageCount < ErrMessages
          /\ RecordUserMessage(id, <<"a">>)
    \/ \E id \in CalledIds :
          /\ MapHas(sessions, id) => sess[MapGet(sessions, id)].files < ErrFiles
          /\ AddFile(id)
    \/ \E id \in CalledIds : Resize(id, SmallSize.cols, SmallSize.rows)
    \/ \E id \in CalledIds : AddSubscriber(id, "v1")

SpecErr == InitWith({Num(1)}) /\ [][NextErr]_vars

\* C17: sendInput, sendChatInput, recordUserMessage, addFile, resize and
\* addSubscriber, called with an id that is not registered (unknown, or of a
\* session already destroyed), throw to the caller and change no state of
\* the registry or of a session.
C17_UnknownIdSurfaced ==
    [][\A id \in CalledIds :
          (/\ ~MapHas(sessions, id)
           /\ \/ SendInput(id, <<"a">>)
              \/ SendChatInput(id, <<"a">>)
              \/ RecordUserMessage(id, <<"a">>)
              \/ AddFile(id)
              \/ Resize(id, SmallSize.cols, SmallSize.rows)
              \/ AddSubscriber(id, "v1"))
             => (threw' /\ UNCHANGED RegistryState)]_vars

----------------------------------------------------------------------------
(* Specification of the registry on a disk that fails: each operation that  *)
(* reads or writes the history finds the disk in any of its states.         *)

NewTitle == <<"b">>

NextDisk ==
    \/ /\ sess = <<>>
       /\ CreateSession("alice", "codex", "default", "chat")
    \/ \E id \in KnownIds, disk \in DiskStates : DestroySessionOnDisk(id, disk)
    \/ \E o \in DOMAIN sess, disk \in DiskStates : OnExitOnDisk(o, disk)
    \/ \E disk \in DiskStates : GetUserSessionHistory("alice", disk)
    \/ \E id \in KnownIds, disk \in DiskStates :
          SetSessionTitle("alice", id, NewTitle, disk)
    \/ \E id \in KnownIds, disk \in DiskStates :
          DeleteSessionHistory("alice", id, disk)

SpecDisk == InitWith({Num(1)}) /\ [][NextDisk]_vars

\* C18: whatever the state of the disk, destroySession, the exit handler,
\* setSessionTitle, deleteSessionHistory and getUserSessionHistory do not
\* throw, and after destroySession or the exit handler the session is in
\* neither the session map nor its owner's active list.
C18_DiskFailureSwallowed ==
    [][/\ ~threw'
       /\ \A id \in KnownIds, disk \in DiskStates :
             DestroySessionOnDisk(id, disk) =>
                 /\ ~MapHas(sessions', id)
                 /\ id \notin Range(activeSessions'["alice"])
       /\ \A o \in DOMAIN sess, disk \in DiskStates :
             OnExitOnDisk(o, disk) =>
                 /\ ~MapHas(sessions', sess[o].sessionId)
                 /\ sess[o].sessionId \notin Range(activeSessions'["alice"])]_vars

----------------------------------------------------------------------------
(* The gate of the transcript (specification SpecOut: output arrives before *)
(* and after the user's first message)                                      *)

\* session.messages.some(m => m.role === 'user')
HasUserMessage(s) == \E i \in DOMAIN s.messages : IsUser(s.messages[i])

----------------------------------------------------------------------------
(* Specification of the durable history: sessions end, the service stops    *)
(* once with sessions registered and restarts, and entries are renamed and  *)
(* deleted, on a disk that works.  The clock advances, if at all, after the *)
(* first session is created.                                                *)

HistSessions == 2

\* the session ids of the owner's history file
HistoryIds(username) ==
    {historyFile[username][i].sessionId : i \in DOMAIN historyFile[username]}

NextHist ==
    \/ /\ Len(sess) < HistSessions
       /\ CreateSession("alice", "codex", "default", "chat")
    \/ \E id \in RegisteredIds : DestroySession(id)
    \/ \E o \in DOMAIN sess : OnExit(o)
    \/ /\ sessions # <<>>
       /\ liveAtCrash = <<>>
       /\ Crash
    \/ Restart(Num(1))
    \/ \E id \in HistoryIds("alice") :
          SetSessionTitle("alice", id, NewTitle, "ok")
    \/ \E id \in HistoryIds("alice") :
          DeleteSessionHistory("alice", id, "ok")
    \/ /\ Len(sess) = 1
       /\ sess[1].createdAt = now
       /\ Tick(1, HistSessions)

SpecHist == InitWith({Num(1)}) /\ [][NextHist]_vars

\* C20: the history file of an owner never holds two entries with the same
\* sessionId, and a step that saves the history of a session whose id has an
\* entry already, or that renames an entry, leaves the number of entries as
\* it was.
C20_OneEntryPerSession ==
    /\ [](\A u \in AllUsers : \A i, j \in DOMAIN historyFile[u] :
            i # j => historyFile[u][i].sessionId # historyFile[u][j].sessionId)
    /\ [][/\ \A o \in DOMAIN sess :
                (/\ o \in DOMAIN sess'
                 /\ ~sess[o].historySaved
                 /\ sess'[o].historySaved
                 /\ EntriesFor(historyFile, sess[o].username, sess[o].sessionId) # {})
                    => Len(historyFile'[sess[o].username]) =
                           Len(historyFile[sess[o].username])
          /\ \A id \in HistoryIds("alice") :
                SetSessionTitle("alice", id, NewTitle, "ok") =>
                    /\ Len(historyFile'["alice"]) = Len(historyFile["alice"])
                    /\ \E h \in EntriesFor(historyFile', "alice", id) :
                          historyFile'["alice"][h].title = NewTitle]_vars

\* two sessions with one id ended and each saved its history, and the
\* history file holds one entry for the id, with the title of a session
C20_Witness ==
    \E o1, o2 \in DOMAIN sess :
        /\ o1 # o2
        /\ sess[o1].sessionId = sess[o2].sessionId
        /\ sess[o1].saves = 1
        /\ sess[o2].saves = 1
        /\ Cardinality(EntriesFor(historyFile, "alice", sess[o1].sessionId)) = 1
        /\ Len(historyFile["alice"]) = 1
        /\ historyFile["alice"][1].title # NewTitle
        /\ historyCache["alice"].has

----------------------------------------------------------------------------
(* The history listing (specification SpecErr: a session is created, gets   *)
(* files and a user message, and is destroyed)                              *)

\* the value the Map `merged` of getUserSessionHistory holds for the id of
\* n[i]: every normalized item has every field, so the last item of an id
\* replaces the earlier ones
ListMerged(n, i) ==
    LET Max(S) == CHOOSE x \in S : \A y \in S : x >= y
    IN  n[Max({j \in 1..Len(n) : n[j].sessionId = n[i].sessionId})]

ListValues(n, firsts) == ArrayOf([k \in 1..Len(firsts) |-> ListMerged(n, firsts[k])])

\* getUserSessionHistory(username): the entries of the history (as read with
\* a disk that works), then the entries of the runtime list, merged by id
getUserSessionHistory(username) ==
    LET disk == _readHistoryForUser(historyCache, historyFile, username, now)
        runtime == userSessions[username]
        n == ArrayOf([i \in 1..Len(disk) |-> _normalizeHistoryItem(disk[i], now)])
             \o ArrayOf([i \in 1..Len(runtime) |-> _normalizeHistoryItem(runtime[i], now)])
    IN  ListValues(n, DedupFirsts(n))

\* the listing has one entry per id, has the ids of the history file and of
\* the registered sessions of the owner, and shows a registered session with
\* its current title and number of files and as not ended
ListingShowsLiveState(username, listing) ==
    /\ \A i, j \in DOMAIN listing :
          i # j => listing[i].sessionId # listing[j].sessionId
    /\ \A h \in DOMAIN historyFile[username] :
          \E i \in DOMAIN listing :
              listing[i].sessionId = historyFile[username][h].sessionId
    /\ \A k \in DOMAIN sessions :
          sess[sessions[k].obj].username = username =>
              \E i \in DOMAIN listing :
                  /\ listing[i].sessionId = sessions[k].id
                  /\ listing[i].title = sess[sessions[k].obj].title
                  /\ listing[i].filesCount = sess[sessions[k].obj].files
                  /\ listing[i].endedAt = 0

\* C21: getUserSessionHistory(owner) returns at most one entry per
\* sessionId, covers every durable entry and every registered session of the
\* owner, and lists a registered session with the title and the number of
\* files the session has now, and with no ended time.
C21_ListHistoryLiveWins ==
    ListingShowsLiveState("alice", getUserSessionHistory("alice"))

----------------------------------------------------------------------------
(* Specification of the session modes: chat and terminal sessions of one    *)
(* owner get messages and output and end.                                   *)

ModeSessions == 2
ModeMessages == 1
ModeOutputs == 1
ModeTicks == 1

NextMode ==
    \/ \E mode \in Modes :
          /\ Len(sess) < ModeSessions
          /\ CreateSession("alice", "codex", "default", mode)
    \/ \E id \in RegisteredIds :
          /\ sess[MapGet(sessions, id)].userMessageCount < ModeMessages
          /\ RecordUserMessage(id, <<"a">>)
    \/ \E o \in DOMAIN sess :
          /\ Len(sess[o].emitted) < ModeOutputs
          /\ OnData(o, <<"a", "CR", "LF">>)
    \/ \E id \in RegisteredIds : DestroySession(id)
    \/ \E o \in DOMAIN sess : OnExit(o)
    \/ Tick(1, ModeTicks)

SpecMode == InitWith({Num(1)}) /\ [][NextMode]_vars

\* the value getSessionTranscript returns when it returns null
NoTranscript == [found |-> FALSE, mode |-> "", messages |-> <<>>]

\* getSessionTranscript(username, sessionId): the messages of the registered
\* session of the id, else those of the transcript file of the id
getSessionTranscript(username, sessionId) ==
    LET active == MapGet(sessions, sessionId)
        key == <<username, sessionId>>
    IN  IF active # 0 /\ sess[active].username = username
        THEN IF sess[active].mode = "terminal" THEN NoTranscript
             ELSE [found |-> TRUE, mode |-> sess[active].mode,
                   messages |-> sess[active].messages]
        ELSE IF key \notin DOMAIN transcriptFile THEN NoTranscript
        ELSE IF transcriptFile[key].mode = "terminal" THEN NoTranscript
        ELSE [found |-> TRUE, mode |-> transcriptFile[key].mode,
              messages |-> transcriptFile[key].messages]

\* the entries of the owner's history file for the id of s all have the
\* given hasTranscript
EntriesHaveTranscript(s, flag) ==
    \A h \in EntriesFor(historyFile, s.username, s.sessionId) :
        historyFile[s.username][h].hasTranscript = flag

\* C22: no step that ends a terminal-mode session writes a transcript file;
\* getSessionTranscript returns nothing for the id of a terminal-mode
\* session, registered or ended, and its history entry has hasTranscript
\* false; a chat-mode session that has ended has a transcript file and a
\* history entry with hasTranscript true.
C22_TerminalKeepsMetadataOnly ==
    /\ [](\A o \in DOMAIN sess :
            /\ sess[o].mode = "terminal" =>
                  /\ ~getSessionTranscript(sess[o].username, sess[o].sessionId).found
                  /\ EntriesHaveTranscript(sess[o], FALSE)
            /\ (sess[o].mode = "chat" /\ sess[o].historySaved) =>
                  /\ <<sess[o].username, sess[o].sessionId>> \in DOMAIN transcriptFile
                  /\ EntriesHaveTranscript(sess[o], TRUE))
    /\ [][\A o \in DOMAIN sess :
             (/\ sess[o].mode = "terminal"
              /\ ~sess[o].historySaved
              /\ sess'[o].historySaved)
                => transcriptFile' = transcriptFile]_vars

----------------------------------------------------------------------------
(* Specification of the terminal replay: the program prints in chunks cut   *)
(* anywhere, one viewer is attached from the start and another one          *)
(* switches to the session later.                                           *)

ReplayOutputs == 3

ReplayChunks == {<<"a", "CR", "LF">>, <<"a", "CR">>, <<"LF", "b">>, <<"ESC", "b", "LF">>}

\* the 'switch_session' message of a connection of the user whose callback
\* is fn and that has no current session: an unknown session or another
\* owner's is answered by an error message; else the callback is subscribed
\* and a terminal session's replay (the replay buffer, the raw buffer when
\* that one is empty) is sent to the connection as one output message
SwitchSession(username, sessionId, fn) ==
    LET o == MapGet(sessions, sessionId)
        Is(e) == e.fn = fn
        replay == IF sess[o].mode # "terminal" THEN <<>>
                  ELSE IF sess[o].terminalReplayBuffer # <<>>
                       THEN sess[o].terminalReplayBuffer
                       ELSE sess[o].outputBuffer
    IN  /\ up
        /\ \A p \in DOMAIN sess : \A k \in DOMAIN sess[p].subscribers :
              sess[p].subscribers[k].fn # fn
        /\ IF o = 0 \/ sess[o].username # username
           THEN UNCHANGED <<sess, received>>
           ELSE /\ sess' = [sess EXCEPT ![o].subscribers =
                               Append(@, [fn |-> fn, from |-> Len(sess[o].emitted)])]
                /\ received' = IF replay = <<>> THEN received
                               ELSE [received EXCEPT ![fn] =
                                        Append(@, [obj |-> o, data |-> replay])]
        /\ threw' = FALSE
        /\ UNCHANGED <<now, config, up, idleCheckTimer, sessions, activeSessions,
                       userSessions, historyCache, historyFile, runtimeStateFile,
                       transcriptFile, liveAtCrash, destroyCalls>>

NextReplay ==
    \/ \E mode \in Modes :
          /\ sess = <<>>
          /\ CreateSession("alice", "codex", "default", mode)
    \/ \E id \in RegisteredIds :
          /\ sess[MapGet(sessions, id)].emitted = <<>>
          /\ AddSubscriber(id, "v1")
    \/ \E o \in DOMAIN sess, data \in ReplayChunks :
          /\ Len(sess[o].emitted) < ReplayOutputs
          /\ OnData(o, data)
    \/ \E id \in RegisteredIds : SwitchSession("alice", id, "v2")

SpecReplay == InitWith({Num(1)}) /\ [][NextReplay]_vars

\* the lines a terminal shows for a text, formatting aside
VisibleLines(text) == SplitLines(SanitizeTerminalOutput(text))

\* everything the connection of the callback has been sent, as one text
SentTo(fn) == Flatten([i \in 1..Len(received[fn]) |-> received[fn][i].data])

\* C23: when one viewer of a terminal-mode session is attached from the
\* start and another one switches to the session later, what the late
\* viewer was sent (the replay, then the chunks after it) shows the same
\* lines as what the early viewer was sent.
C23_ReplayRoundTrip ==
    \A o \in DOMAIN sess :
        (/\ sess[o].mode = "terminal"
         /\ \E k \in DOMAIN sess[o].subscribers :
               sess[o].subscribers[k].fn = "v1" /\ sess[o].subscribers[k].from = 0
         /\ \E k \in DOMAIN sess[o].subscribers : sess[o].subscribers[k].fn = "v2")
            => VisibleLines(SentTo("v2")) = VisibleLines(SentTo("v1"))

----------------------------------------------------------------------------
(* The active session of a user *)

\* the value getUserActiveSession returns when it returns null
NoSession == <<>>

\* getUserActiveSession(username)
getUserActiveSession(username) ==
    LET list == activeSessions[username]
    IN  IF Len(list) > 0 THEN list[Len(list)] ELSE NoSession

\* the session objects of the user that are not over, in creation order
LiveOf(username) ==
    LET IsLive(o) == sess[o].username = username /\ ~Ended(o)
    IN  SelectSeq([o \in 1..Len(sess) |-> o], IsLive)

\* C24: createSession leaves the new session registered under its id and
\* not started; getUserActiveSession(owner) is the id under which the most
\* recently created session of the owner that is not over is registered,
\* and null when every session of the owner is over.
C24_ActiveIsNewestLive ==
    /\ [](\A u \in AllUsers :
            IF LiveOf(u) = <<>> THEN getUserActiveSession(u) = NoSession
            ELSE /\ getUserActiveSession(u) # NoSession
                 /\ MapGet(sessions, getUserActiveSession(u)) = Last(LiveOf(u)))
    /\ [][Len(sess') > Len(sess) =>
             /\ MapGet(sessions', Last(sess').sessionId) = Len(sess')
             /\ ~Last(sess').started]_vars

----------------------------------------------------------------------------
(* Specification of the start command: sessions of every configured agent   *)
(* are started with every model id a 'start' message can carry.             *)

CmdSessions == 2
CmdTicks == 1

ModelIds == {"default", "gemini-2.5-pro", "o4-mini"}

NextCmd ==
    \/ \E agentId \in Agents, modelId \in ModelIds :
          /\ Len(sess) < CmdSessions
          /\ CreateSession("alice", agentId, modelId, "chat")
    \/ \E o \in 1..CmdSessions : StartTimer(o)
    \/ \E o \in 1..CmdSessions : FallbackTimer(o)
    \/ \E id \in RegisteredIds : DestroySession(id)
    \/ Tick(1, CmdTicks)

SpecCmd == InitWith({Num(1)}) /\ [][NextCmd]_vars

\* the tokens that select a model on the command line
ModelFlags ==
    UNION {{ConfiguredModels(a)[k].flag : k \in DOMAIN ConfiguredModels(a)} : a \in Agents}

\* C25: the start command written to the process of a session holds no
\* model-selection argument, whatever the modelId of the session.
C25_NoModelArgument ==
    \A o \in DOMAIN sess : \A w \in DOMAIN sess[o].ptyWrites :
        sess[o].ptyWrites[w].tag = 0 =>
            \A i \in DOMAIN sess[o].ptyWrites[w].data :
                sess[o].ptyWrites[w].data[i] \notin ModelFlags

----------------------------------------------------------------------------
(* Specification of a conversation: one chat session whose user sends       *)
(* messages while the program prints, noise included.                       *)

ChatMessages == 2
ChatOutputs == 3

ChatChunks == {<<"a", "CR", "LF">>, <<"NOISE", "LF">>, <<"b">>}

NextChat ==
    \/ /\ sess = <<>>
       /\ CreateSession("alice", "codex", "default", "chat")
    \/ \E id \in RegisteredIds :
          /\ sess[MapGet(sessions, id)].userMessageCount < ChatMessages
          /\ RecordUserMessage(id, <<"a">>)
    \/ \E o \in DOMAIN sess, data \in ChatChunks :
          /\ Len(sess[o].emitted) < ChatOutputs
          /\ OnData(o, data)

SpecChat == InitWith({Num(1)}) /\ [][NextChat]_vars

\* C26: the transcript of a chat never holds two assistant messages in a
\* row; a chunk that the noise filter leaves something of and that comes
\* first after a user message is appended as a new assistant message after
\* that user message, and one that comes after another chunk is added to
\* the end of the assistant message that is last, the messages before it
\* unchanged; a chunk the filter leaves nothing of changes no message.
C26_AssistantChunksCoalesce ==
    /\ [](\A o \in DOMAIN sess : \A i \in 1..(Len(sess[o].messages) - 1) :
            ~(/\ sess[o].messages[i].role = "assistant"
              /\ sess[o].messages[i + 1].role = "assistant"))
    /\ [][\A o \in DOMAIN sess :
             (/\ sess[o].userMessageCount > 0
              /\ sess'[o].emitted # sess[o].emitted)
             => LET filtered == _filterAssistantNoiseChunk(Last(sess'[o].emitted))
                    old == sess[o].messages
                IN  IF filtered = <<>> THEN sess'[o].messages = old
                    ELSE IF Last(old).role = "user"
                    THEN sess'[o].messages =
                             Append(old, [role |-> "assistant", content |-> filtered])
                    ELSE sess'[o].messages =
                             [old EXCEPT ![Len(old)].content = @ \o filtered]]_vars

\* between two user messages stands one assistant message made of two
\* chunks, and the chunk after the second user message opened another
C26_Witness ==
    \E o \in DOMAIN sess :
        /\ sess[o].emitted = <<<<"a", "CR", "LF">>, <<"b">>, <<"b">>>>
        /\ Len(sess[o].messages) = 4
        /\ sess[o].messages[2] = [role |-> "assistant", content |-> <<"a", "LF", "b">>]
        /\ sess[o].messages[3].role = "user"
        /\ sess[o].messages[4] = [role |-> "assistant", content |-> <<"b">>]

----------------------------------------------------------------------------
(* Specification of long answers: the program of one chat session prints    *)
(* chunks of a million characters between the user's messages, and the      *)
(* user renames the session.                                                *)

LongLen == 1000000
LongMessages == 2
LongOutputs == 3

LongChunk == Run(LongLen)

LongChunks == {LongChunk, <<"b">>}

NextLong ==
    \/ /\ sess = <<>>
       /\ CreateSession("alice", "codex", "default", "chat")
    \/ \E id \in RegisteredIds, text \in {<<"a">>, <<"b">>} :
          /\ sess[MapGet(sessions, id)].userMessageCount < LongMessages
          /\ RecordUserMessage(id, text)
    \/ \E id \in RegisteredIds :
          /\ sess[MapGet(sessions, id)].title # NewTitle
          /\ SetSessionTitle("alice", id, NewTitle, "ok")
    \/ \E o \in DOMAIN sess, data \in LongChunks :
          /\ Len(sess[o].emitted) < LongOutputs
          /\ OnData(o, data)

SpecLong == InitWith({Num(1)}) /\ [][NextLong]_vars

\* the transcript after the chunk is appended and before the ceiling is
\* applied
Untruncated(s, filtered) ==
    IF s.messages = <<>> \/ Last(s.messages).role = "user"
    THEN Append(s.messages, [role |-> "assistant", content |-> filtered])
    ELSE [s.messages EXCEPT ![Len(s.messages)].content = @ \o filtered]

IsSuffix(a, b) == Len(a) <= Len(b) /\ a = SubSeq(b, Len(b) - Len(a) + 1, Len(b))

RECURSIVE ContentSize(_)
ContentSize(messages) ==
    IF messages = <<>> THEN 0
    ELSE CharLen(Head(messages).content) + ContentSize(Tail(messages))

\* C27: after every output chunk that is appended to the transcript of a
\* chat, the transcript is a suffix of the transcript with the chunk
\* appended, it still ends with the message the chunk was appended to, and
\* the sizes of its contents add up to the ceiling at most.
C27_TruncationKeepsNewest ==
    [][\A o \in DOMAIN sess :
          (/\ sess[o].userMessageCount > 0
           /\ sess'[o].emitted # sess[o].emitted
           /\ _filterAssistantNoiseChunk(Last(sess'[o].emitted)) # <<>>)
          => LET whole == Untruncated(sess[o],
                              _filterAssistantNoiseChunk(Last(sess'[o].emitted)))
             IN  /\ IsSuffix(sess'[o].messages, whole)
                 /\ sess'[o].messages # <<>>
                 /\ Last(sess'[o].messages) = Last(whole)
                 /\ ContentSize(sess'[o].messages) <= TranscriptCeiling]_vars

\* C28: a recordUserMessage call sets the title of the session to the one
\* derived from its text when it is the first call on the session, and
\* leaves the title as it is when it is a later one, whatever the transcript
\* still holds and whoever set the title.
C28_TitleFromFirstMessageOnly ==
    [][\A o \in DOMAIN sess :
          sess'[o].userMessageCount = sess[o].userMessageCount + 1
             => IF sess[o].userMessageCount = 0
                THEN sess'[o].title =
                         TitleFrom(Last(sess'[o].messages).content, sess[o].modelId)
                ELSE sess'[o].title = sess[o].title]_vars

----------------------------------------------------------------------------
(* The cap of the pending-input queue *)

\* C29: after every sendInput or sendChatInput on a session that is not
\* ready the queue holds 200 chunks at most; it is the queue before the
\* call with the new chunk at its end, or, when that is longer than 200,
\* the last 120 chunks of it in the same order; the chunk just submitted is
\* its last entry.
C29_PendingQueueBounded ==
    [][\A o \in DOMAIN sess :
          (~sess[o].started /\ sess'[o].submitted = sess[o].submitted + 1)
             => LET old == sess[o].pendingInputs
                    new == sess'[o].pendingInputs
                IN  /\ Len(new) <= PendingHigh
                    /\ new # <<>>
                    /\ Last(new).tag = sess'[o].submitted
                    /\ Front(new) = SubSeq(old, Len(old) - Len(new) + 2, Len(old))
                    /\ IF Len(old) + 1 > PendingHigh THEN Len(new) = PendingKeep
                       ELSE Len(new) = Len(old) + 1]_vars

\* the 201st chunk submitted to a session that is not ready left the 120
\* newest chunks in the queue, the 82nd first
C29_Witness ==
    \E o \in DOMAIN sess :
        /\ ~sess[o].started
        /\ sess[o].submitted = PendingHigh + 1
        /\ Len(sess[o].pendingInputs) = PendingKeep
        /\ sess[o].pendingInputs[1].tag = PendingHigh + 2 - PendingKeep
        /\ Last(sess[o].pendingInputs).tag = PendingHigh + 1

----------------------------------------------------------------------------
(* Specification of the output tails: the program of a session prints       *)
(* chunks of two hundred thousand characters and short ones, and the user   *)
(* types a line.                                                            *)

TailLen == 200000
TailOutputs == 4
TailInputs == 1

TailChunks == {Run(TailLen), <<"b">>, <<"ESC", "b", "CR", "LF">>}

TypedLine == <<"a", "CR">>

NextTail ==
    \/ \E mode \in Modes :
          /\ sess = <<>>
          /\ CreateSession("alice", "codex", "default", mode)
    \/ \E o \in DOMAIN sess, data \in TailChunks :
          /\ Len(sess[o].emitted) < TailOutputs
          /\ OnData(o, data)
    \/ \E id \in RegisteredIds :
          /\ sess[MapGet(sessions, id)].submitted < TailInputs
          /\ SendInput(id, TypedLine)

SpecTail == InitWith({Num(1)}) /\ [][NextTail]_vars

\* the buffer after something was appended to it: the whole of it, or its
\* newest `keep` characters when it is longer than `high`
NewestOf(whole, high, keep) ==
    IF CharLen(whole) > high THEN SliceLastChars(whole, keep) ELSE whole

\* C30: the raw output buffer never holds more than 200000 characters and
\* the replay buffer never more than 600000; after a chunk of output the raw
\* buffer is the buffer before it with the chunk appended, cut to its newest
\* 160000 characters only when that is longer than 200000, and the replay
\* buffer of a terminal session is the buffer before it with the sanitized
\* chunk, after a chunk of input with the lines typed, appended, cut to its
\* newest 400000 characters only when that is longer than 600000.
C30_TailsBounded ==
    /\ [](\A o \in DOMAIN sess :
            /\ CharLen(sess[o].outputBuffer) <= OutputHigh
            /\ CharLen(sess[o].terminalReplayBuffer) <= ReplayHigh)
    /\ [][\A o \in DOMAIN sess :
             /\ sess'[o].emitted # sess[o].emitted =>
                   /\ sess'[o].outputBuffer =
                          NewestOf(sess[o].outputBuffer \o Last(sess'[o].emitted),
                               OutputHigh, OutputKeep)
                   /\ sess'[o].terminalReplayBuffer =
                          IF sess[o].mode = "terminal"
                          THEN NewestOf(sess[o].terminalReplayBuffer \o
                                        SanitizeTerminalOutput(Last(sess'[o].emitted)),
                                    ReplayHigh, ReplayKeep)
                          ELSE sess[o].terminalReplayBuffer
             /\ sess'[o].submitted # sess[o].submitted =>
                   /\ sess'[o].outputBuffer = sess[o].outputBuffer
                   /\ sess'[o].terminalReplayBuffer =
                          IF sess[o].mode = "terminal"
                          THEN NewestOf(InputReplayFrom(sess[o], TypedLine, 1).terminalReplayBuffer,
                                    ReplayHigh, ReplayKeep)
                          ELSE sess[o].terminalReplayBuffer]_vars

\* the raw buffer of a terminal session was cut to 160000 characters by a
\* chunk of output and its replay buffer, 600000 characters long, was cut
\* to 400000 characters by the line the user typed
C30_Witness ==
    \E o \in DOMAIN sess :
        /\ sess[o].mode = "terminal"
        /\ sess[o].emitted = <<Run(TailLen), Run(TailLen), Run(TailLen)>>
        /\ sess[o].submitted = 1
        /\ CharLen(sess[o].outputBuffer) = OutputKeep
        /\ CharLen(sess[o].terminalReplayBuffer) = ReplayKeep
        /\ Last(sess[o].terminalReplayBuffer) = "LF"

----------------------------------------------------------------------------
(* Specification of the snapshot of the live sessions: two owners create a  *)
(* session each, attach files, send messages and rename, and sessions end.  *)

SnapFiles == 1
SnapMessages == 1

NextSnap ==
    \/ \E u \in AllUsers :
          /\ userSessions[u] = <<>>
          /\ CreateSession(u, "codex", "default", "chat")
    \/ \E id \in RegisteredIds :
          /\ sess[MapGet(sessions, id)].files < SnapFiles
          /\ AddFile(id)
    \/ \E id \in RegisteredIds :
          /\ sess[MapGet(sessions, id)].userMessageCount < SnapMessages
          /\ RecordUserMessage(id, <<"a">>)
    \/ \E u \in AllUsers, id \in RegisteredIds :
          /\ sess[MapGet(sessions, id)].title # NewTitle
          /\ SetSessionTitle(u, id, NewTitle, "ok")
    \/ \E id \in RegisteredIds : DestroySession(id)
    \/ \E o \in DOMAIN sess : OnExit(o)

SpecSnap == InitWith({Num(1)}) /\ [][NextSnap]_vars

\* C31: after createSession, addFile, recordUserMessage, setSessionTitle,
\* destroySession and the exit handler, the snapshot file does not exist when
\* the session map is empty, and otherwise lists the sessions of the map,
\* one entry for each, with the owner, the title and the number of files the
\* session has at that moment.
C31_SnapshotListsLiveSessions ==
    [][IF sessions' = <<>> THEN ~runtimeStateFile'.exists
       ELSE /\ runtimeStateFile'.exists
            /\ Len(runtimeStateFile'.activeSessions) = Len(sessions')
            /\ \A i \in DOMAIN sessions' :
                  LET listed == runtimeStateFile'.activeSessions[i]
                      session == sess'[sessions'[i].obj]
                  IN  /\ listed.sessionId = sessions'[i].id
                      /\ listed.username = session.username
                      /\ listed.title = session.title
                      /\ listed.filesCount = session.files]_vars

\* one session ended; the other was renamed after its first message, has a
\* file, and is the one session of the snapshot
C31_Witness ==
    /\ Len(sess) = 2
    /\ Len(sessions) = 1
    /\ sess[sessions[1].obj].title = NewTitle
    /\ sess[sessions[1].obj].userMessageCount = 1
    /\ sess[sessions[1].obj].files = 1
    /\ runtimeStateFile.exists
    /\ runtimeStateFile.activeSessions[1].title = NewTitle
    /\ runtimeStateFile.activeSessions[1].filesCount = 1

----------------------------------------------------------------------------
(* Specification of chat input: one chat session of either program; chat    *)
(* messages are sent before and after the session is ready.                 *)

PaceInputs == 2
PaceOutputs == 1

NextPace ==
    \/ \E agentId \in Agents :
          /\ sess = <<>>
          /\ CreateSession("alice", agentId, "default", "chat")
    \/ \E o \in DOMAIN sess : StartTimer(o)
    \/ \E o \in DOMAIN sess : FallbackTimer(o)
    \/ \E o \in DOMAIN sess :
          /\ Len(sess[o].emitted) < PaceOutputs
          /\ OnData(o, <<"READY">>)
    \/ \E id \in RegisteredIds, text \in InputTexts :
          /\ sess[MapGet(sessions, id)].submitted < PaceInputs
          /\ SendChatInput(id, text)
    \/ \E o \in DOMAIN sess : TypeNext(o)

SpecPace == InitWith({Num(1)}) /\ [][NextPace]_vars

\* the writes of the input with the given tag, in the order they were made
WritesOf(s, tag) ==
    LET IsOf(w) == w.tag = tag IN SelectSeq(s.ptyWrites, IsOf)

\* C32: a chat message is written to the process as a message sent to a
\* ready session is, also when it waited in the queue: for the 'gemini'
\* program in writes of at most 10 characters, for any other program in one
\* write.
C32_QueuedInputPacedAsLive ==
    \A o \in DOMAIN sess : \A tag \in 1..sess[o].submitted :
        LET writes == WritesOf(sess[o], tag)
        IN  IF sess[o].agentId = "gemini"
            THEN \A i \in DOMAIN writes : Len(writes[i].data) <= TypingBatch
            ELSE Len(writes) <= 1

----------------------------------------------------------------------------
(* Specification of the viewers of a session that ends: viewers subscribe   *)
(* to a session and unsubscribe; the session is destroyed by a call or by   *)
(* the reaper, and its process exits.                                       *)

NotifyTicks == 2

NextNotify ==
    \/ /\ sess = <<>>
       /\ CreateSession("alice", "codex", "default", "chat")
    \/ \E id \in RegisteredIds, fn \in Subscribers : AddSubscriber(id, fn)
    \/ \E id \in RegisteredIds, fn \in Subscribers : RemoveSubscriber(id, fn)
    \/ \E id \in RegisteredIds : DestroySession(id)
    \/ Sweep
    \/ \E o \in DOMAIN sess : OnExit(o)
    \/ Tick(1, NotifyTicks)

SpecNotify == InitWith({Num(1)}) /\ [][NextNotify]_vars

\* the viewers subscribed to the session
ViewersOf(s) == {s.subscribers[i].fn : i \in DOMAIN s.subscribers}

\* C33: when the exit of a destroyed session (destroyed by a call of
\* destroySession or by the reaper) has been handled, every viewer that is
\* subscribed to the session has been told that the session ended.
C33_AllViewersNotified ==
    [][\A o \in DOMAIN sess :
          (/\ sess[o].kills >= 1
           /\ sess[o].pty # "exited"
           /\ sess'[o].pty = "exited")
             => ViewersOf(sess'[o]) \subseteq sess'[o].exitNotified]_vars

----------------------------------------------------------------------------
(* Specification of the activity clock of one session: input, output and    *)
(* administrative operations at different times, and the reaper.            *)

TouchInputs == 1
TouchOutputs == 1
TouchTicks == 2

NextTouch ==
    \/ /\ sess = <<>>
       /\ CreateSession("alice", "codex", "default", "chat")
    \/ \E id \in RegisteredIds :
          /\ sess[MapGet(sessions, id)].submitted < TouchInputs
          /\ SendInput(id, <<"a">>)
    \/ \E id \in RegisteredIds :
          /\ sess[MapGet(sessions, id)].submitted < TouchInputs
          /\ SendChatInput(id, <<"a">>)
    \/ \E id \in RegisteredIds :
          /\ sess[MapGet(sessions, id)].userMessageCount < TouchInputs
          /\ RecordUserMessage(id, <<"a">>)
    \/ \E o \in DOMAIN sess :
          /\ Len(sess[o].emitted) < TouchOutputs
          /\ OnData(o, <<"a", "CR", "LF">>)
    \/ \E id \in RegisteredIds :
          /\ sess[MapGet(sessions, id)].files < TouchInputs
          /\ AddFile(id)
    \/ \E id \in RegisteredIds : Resize(id, SmallSize.cols, SmallSize.rows)
    \/ \E id \in RegisteredIds : AddSubscriber(id, "v1")
    \/ \E id \in RegisteredIds : SetSessionTitle("alice", id, NewTitle, "ok")
    \/ Sweep
    \/ Tick(1, TouchTicks)

SpecTouch == InitWith({Num(1)}) /\ [][NextTouch]_vars

\* C34: lastActivityAt of a session is never earlier than its createdAt and
\* never decreases, and sendInput, sendChatInput, recordUserMessage, a chunk
\* of output, addFile, resize, addSubscriber and setSessionTitle on a
\* registered session set it to the current time.
C34_EveryTouchAdvancesActivity ==
    /\ [](\A o \in DOMAIN sess : sess[o].lastActivityAt >= sess[o].createdAt)
    /\ [][/\ \A o \in DOMAIN sess :
                sess'[o].lastActivityAt >= sess[o].lastActivityAt
          /\ \A id \in RegisteredIds :
                (\/ SendInput(id, <<"a">>)
                 \/ SendChatInput(id, <<"a">>)
                 \/ RecordUserMessage(id, <<"a">>)
                 \/ OnData(MapGet(sessions, id), <<"a", "CR", "LF">>)
                 \/ AddFile(id)
                 \/ Resize(id, SmallSize.cols, SmallSize.rows)
                 \/ AddSubscriber(id, "v1")
                 \/ SetSessionTitle("alice", id, NewTitle, "ok"))
                   => sess'[MapGet(sessions, id)].lastActivityAt = now]_vars

----------------------------------------------------------------------------
(* Specification of the history of one owner, who starts each program once: *)
(* the sessions end by destroySession, by the exit of the process and by    *)
(* the reaper, in any order with renames and deletes of history entries.    *)

LostTicks == 2

NextLost ==
    \/ \E agentId \in Agents :
          /\ \A o \in DOMAIN sess : sess[o].agentId # agentId
          /\ CreateSession("alice", agentId, "default", "chat")
    \/ \E id \in RegisteredIds : DestroySession(id)
    \/ \E o \in DOMAIN sess : OnExit(o)
    \/ Sweep
    \/ \E id \in KnownIds :
          /\ \/ \E h \in EntriesFor(historyFile, "alice", id) :
                   historyFile["alice"][h].title # NewTitle
             \/ /\ MapHas(sessions, id)
                /\ sess[MapGet(sessions, id)].title # NewTitle
          /\ SetSessionTitle("alice", id, NewTitle, "ok")
    \/ \E id \in HistoryIds("alice") : DeleteSessionHistory("alice", id, "ok")
    \/ Tick(1, LostTicks)

SpecLost == InitWith({Num(1)}) /\ [][NextLost]_vars

\* C35: the cached history of an owner is the history on disk; a session
\* that ends has an entry in the history; and an entry leaves the history
\* only when deleteSessionHistory is called for its id or when the history
\* is at its cap; a rename changes the title of its entry and nothing else.
C35_NoLostHistoryUpdate ==
    /\ [](\A u \in AllUsers :
            historyCache[u].has => historyCache[u].items = historyFile[u])
    /\ [][/\ \A o \in DOMAIN sess :
                (o \in DOMAIN sess' /\ ~sess[o].historySaved /\ sess'[o].historySaved)
                   => sess[o].sessionId \in HistoryIds(sess[o].username)'
          /\ \A id \in HistoryIds("alice") :
                /\ id \notin HistoryIds("alice")' =>
                      \/ DeleteSessionHistory("alice", id, "ok")
                      \/ Len(historyFile'["alice"]) = HistoryKeep
                /\ SetSessionTitle("alice", id, NewTitle, "ok") =>
                      /\ HistoryIds("alice")' = HistoryIds("alice")
                      /\ \A h \in DOMAIN historyFile["alice"] :
                            historyFile'["alice"][h] =
                                IF historyFile["alice"][h].sessionId = id
                                THEN [historyFile["alice"][h] EXCEPT !.title = NewTitle]
                                ELSE historyFile["alice"][h]]_vars

\* two sessions of the owner ended, one by destroySession and one by the
\* reaper; the entry of the first was deleted and the entry of the second
\* renamed: the history on disk and the cache hold the second entry
C35_Witness ==
    \E o1, o2 \in DOMAIN sess :
        /\ sess[o1].sessionId # sess[o2].sessionId
        /\ sess[o1].saves = 1 /\ ~sess[o1].reaped
        /\ sess[o2].saves = 1 /\ sess[o2].reaped
        /\ HistoryIds("alice") = {sess[o2].sessionId}
        /\ historyFile["alice"][1].title = NewTitle
        /\ historyCache["alice"].has
        /\ historyCache["alice"].items = historyFile["alice"]

----------------------------------------------------------------------------
(* The indices of the registry *)

\* the positions of the id in the active list of the owner
PlacesIn(username, sessionId) ==
    {i \in DOMAIN activeSessions[username] : activeSessions[username][i] = sessionId}

\* C36: every id of an owner's active list is a key of the session map, of
\* a session of that owner; every session of the session map is listed
\* exactly once in the active list of its owner; and a session that was
\* destroyed or whose process exited is not in the session map.
C36_IndicesConsistent ==
    /\ \A u \in AllUsers : \A i \in DOMAIN activeSessions[u] :
          /\ MapHas(sessions, activeSessions[u][i])
          /\ sess[MapGet(sessions, activeSessions[u][i])].username = u
    /\ \A k \in DOMAIN sessions :
          Cardinality(PlacesIn(sess[sessions[k].obj].username, sessions[k].id)) = 1
    /\ \A k \in DOMAIN sessions :
          /\ sess[sessions[k].obj].kills = 0
          /\ sess[sessions[k].obj].pty = "running"

----------------------------------------------------------------------------
(* The start command *)

\* C37: a session is not ready before its start command was written, and
\* the first write to the process of a session is the start command: no
\* input is written before it.
C37_StartCommandFirst ==
    \A o \in DOMAIN sess :
        /\ sess[o].started => sess[o].startCommandSent
        /\ sess[o].startCommandSent => sess[o].ptyWrites # <<>>
        /\ sess[o].ptyWrites # <<>> =>
              /\ sess[o].ptyWrites[1].tag = 0
              /\ sess[o].ptyWrites[1].data =
                     _buildStartCommand(AgentConfig(sess[o].agentId), sess[o].modelId)
                         \o <<"CR">>
        /\ \A i \in DOMAIN sess[o].ptyWrites :
              sess[o].ptyWrites[i].tag >= 1 => i > 1

\* the process printed a ready signature before the start command was
\* written, and input was submitted: the session is not ready, the input
\* waits in the queue, and the one write is the start command
C37_Witness ==
    \E o \in DOMAIN sess :
        /\ sess[o].emitted = <<<<"READY">>>>
        /\ sess[o].startCommandSent
        /\ ~sess[o].started
        /\ sess[o].pendingInputs # <<>>
        /\ Len(sess[o].ptyWrites) = 1
        /\ sess[o].ptyWrites[1].tag = 0

----------------------------------------------------------------------------
(* Deleting a history entry *)

\* the ids of the entries getUserSessionHistory(username) returns
ListedIds(username) ==
    LET listing == getUserSessionHistory(username)
    IN  {listing[i].sessionId : i \in DOMAIN listing}

\* C38: after deleteSessionHistory(owner, id) for the id of a session that
\* has ended, getUserSessionHistory(owner) has no entry for the id and
\* getSessionTranscript(owner, id) returns nothing.
C38_DeletedHistoryIsGone ==
    [][\A id \in HistoryIds("alice") :
          (/\ ~MapHas(sessions, id)
           /\ DeleteSessionHistory("alice", id, "ok"))
             => /\ id \notin ListedIds("alice")'
                /\ ~getSessionTranscript("alice", id)'.found]_vars

----------------------------------------------------------------------------
(* Renaming a session *)

\* the titles getUserSessionHistory(username) reports for the id
ListedTitles(username, sessionId) ==
    LET listing == getUserSessionHistory(username)
    IN  {listing[i].title : i \in {j \in DOMAIN listing : listing[j].sessionId = sessionId}}

\* C39: after setSessionTitle(owner, id, title) for a registered session or
\* for an ended one, getUserSessionHistory(owner) reports the title for the
\* id; and when a session that was renamed ends, its history entry has the
\* title.
C39_RenameIsListed ==
    [][/\ \A id \in KnownIds :
             SetSessionTitle("alice", id, NewTitle, "ok")
                => ListedTitles("alice", id)' = {NewTitle}
       /\ \A o \in DOMAIN sess :
             (/\ sess[o].title = NewTitle
              /\ ~sess[o].historySaved
              /\ sess'[o].historySaved)
                => \E h \in EntriesFor(historyFile', "alice", sess[o].sessionId) :
                      historyFile'["alice"][h].title = NewTitle]_vars

----------------------------------------------------------------------------
(* Specification of the orderly stop: sessions are created and their        *)
(* processes exit; destroyAll is called, the exits of the killed processes  *)
(* are handled before or after the process of the service ends, and the     *)
(* service is started again.  No session is created between destroyAll and  *)
(* the end of the process.                                                  *)

StopSessions == 2
StopTicks == 1

NextStop ==
    \/ /\ idleCheckTimer
       /\ Len(sess) < StopSessions
       /\ CreateSession("alice", "codex", "default", "chat")
    \/ \E o \in DOMAIN sess : OnExit(o)
    \/ /\ idleCheckTimer
       /\ DestroyAll
    \/ /\ ~idleCheckTimer
       /\ Crash
    \/ Restart(Num(1))
    \/ Tick(1, StopTicks)

SpecStop == InitWith({Num(1)}) /\ [][NextStop]_vars

\* the entries of the owner's history file that recovery wrote
RestartEntries(username) ==
    {h \in DOMAIN historyFile[username] :
        historyFile[username][h].endedReason = "server_restart"}

====
